---- MODULE Spec2Model ----
\* MicroCost: the dependency-graph engine (internal/graph) and the cost
\* attribution engine (internal/costengine, pkg/models), as state machines.
\*
\* Money is counted in units of 10^-7 dollars and megabyte figures are taken
\* from multiples of 1024, so that every product and quotient of the cost
\* formulas is an exact integer.
EXTENDS Integers, Sequences, FiniteSets, TLC

VARIABLES
    callGraph,        \* models.CallGraph: Services (name -> endpoint list), Dependencies
    metricsSnapshot,  \* models.MetricsSnapshot: service -> "path:method" -> metrics
    durationHours,    \* timeRange.End.Sub(timeRange.Start).Hours()
    report,           \* what CalculateCosts returned: Nil before the call, Ptr(report) after
    graph,            \* graph.Graph: nodes (id -> Node), edges (list of Edge)
    result,           \* what the last call returned besides the report
    config,           \* config.Config: Output.TopN
    history           \* the AddNode and AddEdge calls made on the graph so far

costVars  == <<callGraph, metricsSnapshot, durationHours, report>>
graphVars == <<graph, result>>
vars      == <<callGraph, metricsSnapshot, durationHours, report, graph, result,
               config, history>>

----------------------------------------------------------------------------
\* Pointers: a nil pointer is the empty tuple, a non-nil one a 1-tuple.
Nil      == <<>>
Ptr(x)   == <<x>>
Deref(p) == p[1]

\* map[k] = v
MapPut(m, k, v) == [x \in (DOMAIN m) \cup {k} |-> IF x = k THEN v ELSE m[x]]

\* All orders in which a range over a Go map with key set S may visit it.
RECURSIVE Perms(_)
Perms(S) == IF S = {} THEN {<<>>} ELSE UNION {{<<x>> \o p : p \in Perms(S \ {x})} : x \in S}

RECURSIVE SumOver(_, _)
\* sum of f[x] over x in S
SumOver(f, S) ==
    IF S = {} THEN 0
    ELSE LET x == CHOOSE y \in S : TRUE IN f[x] + SumOver(f, S \ {x})

RECURSIVE Product(_)
Product(s) == IF s = <<>> THEN 1 ELSE s[1] * Product(Tail(s))

----------------------------------------------------------------------------
\* Bounds of the explored inputs.
MaxDeps == 2      \* dependencies in the call graph

ServiceNames == {"A", "B"}
Paths        == {"/x", "/y"}
Methods      == {"GET", "POST"}
Weights      == {2, 3}
Durations    == {2}

\* fmt.Sprintf("%s:%s", a, b)
Key(a, b) == a \o ":" \o b

----------------------------------------------------------------------------
\* pkg/models/service.go

NewCallGraph == [Services |-> <<>>, Dependencies |-> <<>>]

\* cg.Services[service.Name] = service
AddServiceTo(cg, service) ==
    [cg EXCEPT !.Services = MapPut(@, service.Name, service)]

\* endpoint.Service = s; s.Endpoints = append(s.Endpoints, endpoint)
AddEndpointTo(s, endpoint) ==
    [s EXCEPT !.Endpoints = Append(@, [endpoint EXCEPT !.Service = Ptr(s.Name)])]

\* cg.Dependencies = append(cg.Dependencies, dep)
AddDependencyTo(cg, dep) ==
    [cg EXCEPT !.Dependencies = Append(@, dep)]

\* (service, exists): Nil when the name is not a key of cg.Services
GetService(cg, name) ==
    IF name \in DOMAIN cg.Services THEN Ptr(cg.Services[name]) ELSE Nil

RECURSIVE GetEndpointFrom(_, _, _, _)
GetEndpointFrom(eps, i, path, method) ==
    IF i > Len(eps) THEN Nil
    ELSE IF eps[i].Path = path /\ eps[i].Method = method THEN Ptr(eps[i])
    ELSE GetEndpointFrom(eps, i + 1, path, method)

\* first endpoint of s with that path and method, Nil when there is none
GetEndpoint(s, path, method) == GetEndpointFrom(s.Endpoints, 1, path, method)

----------------------------------------------------------------------------
\* pkg/models/metrics.go

\* (sm, exists): Nil when the service has no entry in the snapshot
GetServiceMetrics(ms, serviceName) ==
    IF serviceName \in DOMAIN ms.Services THEN Ptr(ms.Services[serviceName]) ELSE Nil

----------------------------------------------------------------------------
\* pkg/models/cost.go

NewCostReport(costModel) ==
    [Services |-> <<>>, TotalCost |-> 0, CostModel |-> costModel,
     TopCostly |-> <<>>, Recommendations |-> <<>>]

\* AddServiceCost with the total assigned instead of accumulated
AddServiceCostAssign(cr, sc) ==
    [cr EXCEPT !.Services = MapPut(@, sc.ServiceName, sc),
               !.TotalCost = sc.TotalCost]

AddServiceCost(cr, sc) ==
    [cr EXCEPT !.Services = MapPut(@, sc.ServiceName, sc),
               !.TotalCost = @ + sc.TotalCost]

CalculateTotalCost(cr) ==
    [cr EXCEPT !.TotalCost =
        SumOver([s \in DOMAIN cr.Services |-> cr.Services[s].TotalCost], DOMAIN cr.Services)]

\* NewCostBreakdown with the network cost scaled by the hours like the others
NewCostBreakdownNetworkPerHour(metrics, perfMetrics, model, hours) ==
    LET res  == metrics # Nil /\ model # Nil
        perf == perfMetrics # Nil /\ model # Nil
        m    == Deref(metrics)
        p    == Deref(perfMetrics)
        c    == Deref(model)
        cpu  == IF res THEN m.CPUCores * c.CPUCostPerCoreHour * hours ELSE 0
        mem  == IF res THEN (m.MemoryMB \div 1024) * c.MemoryCostPerGBHour * hours ELSE 0
        net  == IF res THEN ((m.NetworkInMB + m.NetworkOutMB) \div 1024) * c.NetworkCostPerGB * hours
                ELSE 0
        disk == IF res THEN ((m.DiskReadMB + m.DiskWriteMB) \div 1024) * c.DiskCostPerGBHour * hours ELSE 0
        req  == IF perf THEN p.RequestRate * c.RequestCost * hours * 3600 ELSE 0
    IN [CPUCost |-> cpu, MemoryCost |-> mem, NetworkCost |-> net, DiskCost |-> disk,
        RequestCost |-> req, DownstreamTotal |-> 0,
        Total |-> cpu + mem + net + disk + req]

\* NewCostBreakdown with the request cost left out of the total
NewCostBreakdownNoRequest(metrics, perfMetrics, model, hours) ==
    LET res  == metrics # Nil /\ model # Nil
        perf == perfMetrics # Nil /\ model # Nil
        m    == Deref(metrics)
        p    == Deref(perfMetrics)
        c    == Deref(model)
        cpu  == IF res THEN m.CPUCores * c.CPUCostPerCoreHour * hours ELSE 0
        mem  == IF res THEN (m.MemoryMB \div 1024) * c.MemoryCostPerGBHour * hours ELSE 0
        net  == IF res THEN ((m.NetworkInMB + m.NetworkOutMB) \div 1024) * c.NetworkCostPerGB ELSE 0
        disk == IF res THEN ((m.DiskReadMB + m.DiskWriteMB) \div 1024) * c.DiskCostPerGBHour * hours ELSE 0
        req  == IF perf THEN p.RequestRate * c.RequestCost * hours * 3600 ELSE 0
    IN [CPUCost |-> cpu, MemoryCost |-> mem, NetworkCost |-> net, DiskCost |-> disk,
        RequestCost |-> req, DownstreamTotal |-> 0,
        Total |-> cpu + mem + net + disk]

NewCostBreakdown(metrics, perfMetrics, model, hours) ==
    LET res  == metrics # Nil /\ model # Nil
        perf == perfMetrics # Nil /\ model # Nil
        m    == Deref(metrics)
        p    == Deref(perfMetrics)
        c    == Deref(model)
        cpu  == IF res THEN m.CPUCores * c.CPUCostPerCoreHour * hours ELSE 0
        mem  == IF res THEN (m.MemoryMB \div 1024) * c.MemoryCostPerGBHour * hours ELSE 0
        net  == IF res THEN ((m.NetworkInMB + m.NetworkOutMB) \div 1024) * c.NetworkCostPerGB ELSE 0
        disk == IF res THEN ((m.DiskReadMB + m.DiskWriteMB) \div 1024) * c.DiskCostPerGBHour * hours ELSE 0
        req  == IF perf THEN p.RequestRate * c.RequestCost * hours * 3600 ELSE 0
    IN [CPUCost |-> cpu, MemoryCost |-> mem, NetworkCost |-> net, DiskCost |-> disk,
        RequestCost |-> req, DownstreamTotal |-> 0,
        Total |-> cpu + mem + net + disk + req]

----------------------------------------------------------------------------
\* internal/costengine/calculator.go

\* config.DefaultConfig().CostModel, in units of 10^-7 dollars
DefaultCostModel ==
    [CPUCostPerCoreHour  |-> 416000,
     MemoryCostPerGBHour |-> 52000,
     NetworkCostPerGB    |-> 900000,
     DiskCostPerGBHour   |-> 1000000,
     RequestCost         |-> 2]

\* maxDepth := 10 // Prevent infinite recursion
maxDepth == 10

\* findTopCostlyEndpoints(report, 10)
TopCostlyN == 10

\* A float64 quotient num / den, kept exact.
Ratio(num, den) == [num |-> num, den |-> den]
ZeroRatio == Ratio(0, 1)

calculateEndpointCost(endpoint, serviceMetrics, hours) ==
    LET ec  == [Service |-> Deref(endpoint.Service), Endpoint |-> endpoint.Path,
                Method |-> endpoint.Method, DirectCost |-> 0, DownstreamCosts |-> <<>>,
                TotalCost |-> 0, CostPerRequest |-> ZeroRatio, RequestCount |-> 0,
                CostBreakdown |-> Nil]
        key == Key(endpoint.Path, endpoint.Method)
    IN  IF serviceMetrics = Nil THEN ec
        ELSE IF key \notin DOMAIN Deref(serviceMetrics).Endpoints THEN ec
        ELSE LET endpointMetrics == Deref(serviceMetrics).Endpoints[key] IN
             IF endpointMetrics.Resource = Nil THEN ec
             ELSE LET costBreakdown == NewCostBreakdown(endpointMetrics.Resource,
                                           endpointMetrics.Performance,
                                           Ptr(DefaultCostModel), hours)
                  IN [ec EXCEPT !.DirectCost = costBreakdown.Total,
                                !.CostBreakdown = Ptr(costBreakdown),
                                !.RequestCount =
                                    IF endpointMetrics.Performance # Nil
                                    THEN Deref(endpointMetrics.Performance).RequestRate * hours * 3600
                                    ELSE 0]

\* ScaleNested with the nested costs appended unscaled
ScaleNestedUnscaled(nestedCosts, dep, i) ==
    [k \in 1..Len(nestedCosts) |-> [nestedCosts[k] EXCEPT !.Chain = <<i>> \o @]]

\* nc.Cost *= dep.Weight, for every nested entry; Chain is an auxiliary field
\* (not in models.DownstreamCost) recording the indices of the dependencies
\* walked from the attributed endpoint to the entry's target.
ScaleNested(nestedCosts, dep, i) ==
    [k \in 1..Len(nestedCosts) |->
        [nestedCosts[k] EXCEPT !.Cost = @ * dep.Weight, !.Chain = <<i>> \o @]]

\* the direct cost read for a dependency's target: endpointCosts[ToEndpoint:GET]
TargetCost(endpointCosts, dep) ==
    LET targetKey == Key(dep.ToEndpoint, "GET") IN
    IF targetKey \in DOMAIN endpointCosts THEN endpointCosts[targetKey].DirectCost ELSE 0

RECURSIVE calculateDownstreamCosts(_, _, _, _, _)
RECURSIVE DependencyLoop(_, _, _, _, _, _, _)

\* Returns the downstream entries and the visited map as the call leaves it.
calculateDownstreamCosts(endpoint, cg, endpointCosts, depth, visited) ==
    IF depth > maxDepth
    THEN [costs |-> <<>>, visited |-> visited]
    ELSE DependencyLoop(endpoint, cg, endpointCosts, depth, visited, 1, <<>>)

\* where the loop over callGraph.Dependencies next enters the body of its
\* "if dep.FromService == endpoint.Service.Name && dep.FromEndpoint ==
\* endpoint.Path", from the i-th dependency on: the index of the first such
\* dependency, past the end of the list when there is none
NextFrom(endpoint, cg, i) ==
    LET from == {j \in i..Len(cg.Dependencies) :
                    /\ cg.Dependencies[j].FromService = Deref(endpoint.Service)
                    /\ cg.Dependencies[j].FromEndpoint = endpoint.Path}
    IN IF from = {} THEN Len(cg.Dependencies) + 1
       ELSE CHOOSE j \in from : \A k \in from : j <= k

RECURSIVE DependencyLoopAnyPath(_, _, _, _, _, _, _)
\* DependencyLoop taking every dependency of the endpoint's service as the endpoint's
DependencyLoopAnyPath(endpoint, cg, endpointCosts, depth, visited, i, downstreamCosts) ==
    IF i > Len(cg.Dependencies)
    THEN [costs |-> downstreamCosts, visited |-> visited]
    ELSE
      LET dep == cg.Dependencies[i] IN
      IF ~(dep.FromService = Deref(endpoint.Service))
      THEN DependencyLoopAnyPath(endpoint, cg, endpointCosts, depth, visited, i + 1, downstreamCosts)
      ELSE
        LET depKey == Key(dep.ToService, dep.ToEndpoint) IN
        IF depKey \in visited
        THEN DependencyLoopAnyPath(endpoint, cg, endpointCosts, depth, visited, i + 1, downstreamCosts)
        ELSE
          LET dc == [Service |-> dep.ToService, Endpoint |-> dep.ToEndpoint,
                     Cost |-> TargetCost(endpointCosts, dep) * dep.Weight,
                     CallsPerRequest |-> dep.Weight, Depth |-> depth + 1,
                     Chain |-> <<i>>]
              targetService  == GetService(cg, dep.ToService)
              targetEndpoint == IF targetService = Nil THEN Nil
                                ELSE GetEndpoint(Deref(targetService), dep.ToEndpoint, "GET")
              nested == calculateDownstreamCosts(Deref(targetEndpoint), cg, endpointCosts,
                                                 depth + 1, visited \cup {depKey})
          IN IF targetEndpoint = Nil
             THEN DependencyLoopAnyPath(endpoint, cg, endpointCosts, depth, visited, i + 1,
                                 Append(downstreamCosts, dc))
             ELSE DependencyLoopAnyPath(endpoint, cg, endpointCosts, depth,
                                 nested.visited \ {depKey}, i + 1,
                                 Append(downstreamCosts, dc) \o ScaleNested(nested.costs, dep, i))

RECURSIVE DependencyLoopStopAtVisited(_, _, _, _, _, _, _)
\* DependencyLoop leaving the loop at the first dependency whose target is visited
DependencyLoopStopAtVisited(endpoint, cg, endpointCosts, depth, visited, i, downstreamCosts) ==
    IF i > Len(cg.Dependencies)
    THEN [costs |-> downstreamCosts, visited |-> visited]
    ELSE
      LET dep == cg.Dependencies[i] IN
      IF ~(dep.FromService = Deref(endpoint.Service) /\ dep.FromEndpoint = endpoint.Path)
      THEN DependencyLoopStopAtVisited(endpoint, cg, endpointCosts, depth, visited,
                          NextFrom(endpoint, cg, i + 1), downstreamCosts)
      ELSE
        LET depKey == Key(dep.ToService, dep.ToEndpoint) IN
        IF depKey \in visited
        THEN [costs |-> downstreamCosts, visited |-> visited]
        ELSE
          LET dc == [Service |-> dep.ToService, Endpoint |-> dep.ToEndpoint,
                     Cost |-> TargetCost(endpointCosts, dep) * dep.Weight,
                     CallsPerRequest |-> dep.Weight, Depth |-> depth + 1,
                     Chain |-> <<i>>]
              targetService  == GetService(cg, dep.ToService)
              targetEndpoint == IF targetService = Nil THEN Nil
                                ELSE GetEndpoint(Deref(targetService), dep.ToEndpoint, "GET")
              nested == calculateDownstreamCosts(Deref(targetEndpoint), cg, endpointCosts,
                                                 depth + 1, visited \cup {depKey})
          IN IF targetEndpoint = Nil
             THEN DependencyLoopStopAtVisited(endpoint, cg, endpointCosts, depth, visited,
                                 NextFrom(endpoint, cg, i + 1), Append(downstreamCosts, dc))
             ELSE DependencyLoopStopAtVisited(endpoint, cg, endpointCosts, depth,
                                 nested.visited \ {depKey}, NextFrom(endpoint, cg, i + 1),
                                 Append(downstreamCosts, dc) \o ScaleNested(nested.costs, dep, i))

RECURSIVE DependencyLoopKeepVisited(_, _, _, _, _, _, _)
\* DependencyLoop leaving the target marked as visited after the recursive call
DependencyLoopKeepVisited(endpoint, cg, endpointCosts, depth, visited, i, downstreamCosts) ==
    IF i > Len(cg.Dependencies)
    THEN [costs |-> downstreamCosts, visited |-> visited]
    ELSE
      LET dep == cg.Dependencies[i] IN
      IF ~(dep.FromService = Deref(endpoint.Service) /\ dep.FromEndpoint = endpoint.Path)
      THEN DependencyLoopKeepVisited(endpoint, cg, endpointCosts, depth, visited,
                          NextFrom(endpoint, cg, i + 1), downstreamCosts)
      ELSE
        LET depKey == Key(dep.ToService, dep.ToEndpoint) IN
        IF depKey \in visited
        THEN DependencyLoopKeepVisited(endpoint, cg, endpointCosts, depth, visited,
                          NextFrom(endpoint, cg, i + 1), downstreamCosts)
        ELSE
          LET dc == [Service |-> dep.ToService, Endpoint |-> dep.ToEndpoint,
                     Cost |-> TargetCost(endpointCosts, dep) * dep.Weight,
                     CallsPerRequest |-> dep.Weight, Depth |-> depth + 1,
                     Chain |-> <<i>>]
              targetService  == GetService(cg, dep.ToService)
              targetEndpoint == IF targetService = Nil THEN Nil
                                ELSE GetEndpoint(Deref(targetService), dep.ToEndpoint, "GET")
              nested == calculateDownstreamCosts(Deref(targetEndpoint), cg, endpointCosts,
                                                 depth + 1, visited \cup {depKey})
          IN IF targetEndpoint = Nil
             THEN DependencyLoopKeepVisited(endpoint, cg, endpointCosts, depth, visited,
                                 NextFrom(endpoint, cg, i + 1), Append(downstreamCosts, dc))
             ELSE DependencyLoopKeepVisited(endpoint, cg, endpointCosts, depth,
                                 nested.visited, NextFrom(endpoint, cg, i + 1),
                                 Append(downstreamCosts, dc) \o ScaleNested(nested.costs, dep, i))

\* for _, dep := range callGraph.Dependencies, from the i-th dependency on;
\* the dependencies that do not leave the endpoint are passed over in one step
DependencyLoop(endpoint, cg, endpointCosts, depth, visited, i, downstreamCosts) ==
    IF i > Len(cg.Dependencies)
    THEN [costs |-> downstreamCosts, visited |-> visited]
    ELSE
      LET dep == cg.Dependencies[i] IN
      IF ~(dep.FromService = Deref(endpoint.Service) /\ dep.FromEndpoint = endpoint.Path)
      THEN DependencyLoop(endpoint, cg, endpointCosts, depth, visited,
                          NextFrom(endpoint, cg, i + 1), downstreamCosts)
      ELSE
        LET depKey == Key(dep.ToService, dep.ToEndpoint) IN
        IF depKey \in visited
        THEN DependencyLoop(endpoint, cg, endpointCosts, depth, visited,
                          NextFrom(endpoint, cg, i + 1), downstreamCosts)
        ELSE
          LET dc == [Service |-> dep.ToService, Endpoint |-> dep.ToEndpoint,
                     Cost |-> TargetCost(endpointCosts, dep) * dep.Weight,
                     CallsPerRequest |-> dep.Weight, Depth |-> depth + 1,
                     Chain |-> <<i>>]
              targetService  == GetService(cg, dep.ToService)
              targetEndpoint == IF targetService = Nil THEN Nil
                                ELSE GetEndpoint(Deref(targetService), dep.ToEndpoint, "GET")
              nested == calculateDownstreamCosts(Deref(targetEndpoint), cg, endpointCosts,
                                                 depth + 1, visited \cup {depKey})
          IN IF targetEndpoint = Nil
             THEN DependencyLoop(endpoint, cg, endpointCosts, depth, visited,
                                 NextFrom(endpoint, cg, i + 1), Append(downstreamCosts, dc))
             ELSE DependencyLoop(endpoint, cg, endpointCosts, depth,
                                 nested.visited \ {depKey}, NextFrom(endpoint, cg, i + 1),
                                 Append(downstreamCosts, dc) \o ScaleNested(nested.costs, dep, i))

RECURSIVE SumCosts(_, _)
\* for _, dc := range downstreamCosts { downstreamTotal += dc.Cost }
SumCosts(downstreamCosts, i) ==
    IF i > Len(downstreamCosts) THEN 0
    ELSE downstreamCosts[i].Cost + SumCosts(downstreamCosts, i + 1)

RECURSIVE DirectLoop(_, _, _, _, _)
\* first loop over service.Endpoints: direct cost of every endpoint
DirectLoop(endpoints, serviceMetrics, hours, i, serviceCost) ==
    IF i > Len(endpoints) THEN serviceCost
    ELSE LET endpointCost == calculateEndpointCost(endpoints[i], serviceMetrics, hours)
             key == Key(endpoints[i].Path, endpoints[i].Method)
         IN DirectLoop(endpoints, serviceMetrics, hours, i + 1,
                [serviceCost EXCEPT !.Endpoints = MapPut(@, key, endpointCost),
                                    !.DirectCost = @ + endpointCost.DirectCost])

\* AttributeEndpoint dividing the direct cost, not the total, by the request count
AttributeEndpointDirectPerRequest(endpoint, cg, endpointCosts) ==
    LET key == Key(endpoint.Path, endpoint.Method)
        endpointCost == endpointCosts[key]
        downstreamCosts == calculateDownstreamCosts(endpoint, cg, endpointCosts, 0, {}).costs
        downstreamTotal == SumCosts(downstreamCosts, 1)
        total == endpointCost.DirectCost + downstreamTotal
    IN [endpointCost EXCEPT
            !.DownstreamCosts = downstreamCosts,
            !.TotalCost = total,
            !.CostBreakdown = IF @ # Nil
                              THEN Ptr([Deref(@) EXCEPT !.DownstreamTotal = downstreamTotal,
                                                        !.Total = total])
                              ELSE @,
            !.CostPerRequest = IF endpointCost.RequestCount > 0
                               THEN Ratio(endpointCost.DirectCost, endpointCost.RequestCount)
                               ELSE @]

\* AttributeEndpoint with only the depth-1 entries counted in the total
AttributeEndpointDirectOnly(endpoint, cg, endpointCosts) ==
    LET key == Key(endpoint.Path, endpoint.Method)
        endpointCost == endpointCosts[key]
        downstreamCosts == calculateDownstreamCosts(endpoint, cg, endpointCosts, 0, {}).costs
        downstreamTotal == SumCosts(SelectSeq(downstreamCosts, LAMBDA dc : dc.Depth = 1), 1)
        total == endpointCost.DirectCost + downstreamTotal
    IN [endpointCost EXCEPT
            !.DownstreamCosts = downstreamCosts,
            !.TotalCost = total,
            !.CostBreakdown = IF @ # Nil
                              THEN Ptr([Deref(@) EXCEPT !.DownstreamTotal = downstreamTotal,
                                                        !.Total = total])
                              ELSE @,
            !.CostPerRequest = IF endpointCost.RequestCount > 0
                               THEN Ratio(total, endpointCost.RequestCount)
                               ELSE @]

\* body of the second loop, for one endpoint
AttributeEndpoint(endpoint, cg, endpointCosts) ==
    LET key == Key(endpoint.Path, endpoint.Method)
        endpointCost == endpointCosts[key]
        downstreamCosts == calculateDownstreamCosts(endpoint, cg, endpointCosts, 0, {}).costs
        downstreamTotal == SumCosts(downstreamCosts, 1)
        total == endpointCost.DirectCost + downstreamTotal
    IN [endpointCost EXCEPT
            !.DownstreamCosts = downstreamCosts,
            !.TotalCost = total,
            !.CostBreakdown = IF @ # Nil
                              THEN Ptr([Deref(@) EXCEPT !.DownstreamTotal = downstreamTotal,
                                                        !.Total = total])
                              ELSE @,
            !.CostPerRequest = IF endpointCost.RequestCount > 0
                               THEN Ratio(total, endpointCost.RequestCount)
                               ELSE @]

RECURSIVE AttributeLoop(_, _, _, _)
\* second loop over service.Endpoints: downstream attribution
AttributeLoop(endpoints, cg, i, serviceCost) ==
    IF i > Len(endpoints) THEN serviceCost
    ELSE LET key == Key(endpoints[i].Path, endpoints[i].Method) IN
         AttributeLoop(endpoints, cg, i + 1,
            [serviceCost EXCEPT !.Endpoints[key] =
                AttributeEndpoint(endpoints[i], cg, serviceCost.Endpoints)])

\* body of the loop over callGraph.Services, for one service
CalculateServiceCost(serviceName, cg, ms, hours) ==
    LET service == cg.Services[serviceName]
        serviceMetrics == GetServiceMetrics(ms, serviceName)
        sc0 == [ServiceName |-> serviceName, Endpoints |-> <<>>,
                TotalCost |-> 0, DirectCost |-> 0, AttributedCost |-> 0]
        sc1 == DirectLoop(service.Endpoints, serviceMetrics, hours, 1, sc0)
        sc2 == AttributeLoop(service.Endpoints, cg, 1, sc1)
        attributed == SumOver([k \in DOMAIN sc2.Endpoints |->
                                  SumCosts(sc2.Endpoints[k].DownstreamCosts, 1)],
                              DOMAIN sc2.Endpoints)
    IN [sc2 EXCEPT !.AttributedCost = attributed,
                   !.TotalCost = sc2.DirectCost + attributed]

RECURSIVE ServiceLoop(_, _, _, _, _, _)
\* for serviceName, service := range callGraph.Services, in the order visited
ServiceLoop(order, i, cg, ms, hours, rep) ==
    IF i > Len(order) THEN rep
    ELSE ServiceLoop(order, i + 1, cg, ms, hours,
                     AddServiceCost(rep, CalculateServiceCost(order[i], cg, ms, hours)))

RECURSIVE Flatten(_, _, _)
\* the endpoint costs met by: for _, sc := range report.Services { for _, ec := range sc.Endpoints }
Flatten(rep, serviceOrder, keyOrder) ==
    IF serviceOrder = <<>> THEN <<>>
    ELSE LET s == Head(serviceOrder) IN
         [k \in 1..Len(keyOrder[s]) |-> rep.Services[s].Endpoints[keyOrder[s][k]]]
            \o Flatten(rep, Tail(serviceOrder), keyOrder)

\* every order in which the nested range over the two maps may visit the endpoint costs
Walks(rep) ==
    LET names == DOMAIN rep.Services
        keyOrders == UNION {Perms(DOMAIN rep.Services[s].Endpoints) : s \in names}
    IN {Flatten(rep, so, ko) :
            so \in Perms(names),
            ko \in {f \in [names -> keyOrders] :
                        \A s \in names : f[s] \in Perms(DOMAIN rep.Services[s].Endpoints)}}

Swap(a, i, j) == [a EXCEPT ![i] = a[j], ![j] = a[i]]

RECURSIVE SortInnerAscending(_, _, _)
\* SortInner swapping when a[j].TotalCost < a[i].TotalCost
SortInnerAscending(a, i, j) ==
    IF j > Len(a) THEN a
    ELSE SortInnerAscending(IF a[j].TotalCost < a[i].TotalCost THEN Swap(a, i, j) ELSE a,
                            i, j + 1)

RECURSIVE SortInner(_, _, _)
\* for j := i + 1; j < len; j++ { if a[j].TotalCost > a[i].TotalCost { swap } }
SortInner(a, i, j) ==
    IF j > Len(a) THEN a
    ELSE SortInner(IF a[j].TotalCost > a[i].TotalCost THEN Swap(a, i, j) ELSE a, i, j + 1)

RECURSIVE SortOuter(_, _)
\* for i := 0; i < len-1; i++
SortOuter(a, i) ==
    IF i > Len(a) - 1 THEN a
    ELSE SortOuter(SortInner(a, i, i + 1), i + 1)

\* findTopCostlyEndpoints cutting the list to n before sorting it
findTopCostlyEndpointsCutFirst(allEndpoints, n) ==
    SortOuter(IF Len(allEndpoints) > n THEN SubSeq(allEndpoints, 1, n) ELSE allEndpoints, 1)

findTopCostlyEndpoints(allEndpoints, n) ==
    LET sorted == SortOuter(allEndpoints, 1) IN
    IF Len(sorted) > n THEN SubSeq(sorted, 1, n) ELSE sorted

RECURSIVE ReviewLoopFromFive(_, _, _)
\* ReviewLoop recommending from a ratio of exactly 5 on
ReviewLoopFromFive(walk, i, recommendations) ==
    IF i > Len(walk) THEN recommendations
    ELSE LET ec == walk[i] IN
         ReviewLoopFromFive(walk, i + 1,
            IF ec.CostBreakdown # Nil /\ ec.DirectCost > 0
               /\ Deref(ec.CostBreakdown).DownstreamTotal >= 5 * ec.DirectCost
            THEN Append(recommendations,
                        [Kind |-> "review", Name |-> ec.Service \o ec.Endpoint])
            ELSE recommendations)

RECURSIVE ReviewLoop(_, _, _)
\* the "review dependency chain" recommendations, in the order the endpoint costs are met
ReviewLoop(walk, i, recommendations) ==
    IF i > Len(walk) THEN recommendations
    ELSE LET ec == walk[i] IN
         ReviewLoop(walk, i + 1,
            IF ec.CostBreakdown # Nil /\ ec.DirectCost > 0
               /\ Deref(ec.CostBreakdown).DownstreamTotal > 5 * ec.DirectCost
            THEN Append(recommendations,
                        [Kind |-> "review", Name |-> ec.Service \o ec.Endpoint])
            ELSE recommendations)

generateRecommendations(rep, walk) ==
    ReviewLoop(walk, 1,
        IF Len(rep.TopCostly) > 0
        THEN <<[Kind |-> "optimize",
                Name |-> rep.TopCostly[1].Service \o rep.TopCostly[1].Endpoint,
                CostPerRequest |-> rep.TopCostly[1].CostPerRequest]>>
        ELSE <<>>)

\* CalculateCosts up to and including the loop over callGraph.Services
CostsOfServices(cg, ms, hours, order) ==
    ServiceLoop(order, 1, cg, ms, hours, NewCostReport(Ptr(DefaultCostModel)))

----------------------------------------------------------------------------
\* internal/graph/graph.go

MaxEdges     == 4      \* edges added to the graph
MaxPathDepth == 3      \* largest maxDepth handed to FindAllPaths

NodeIDs      == {"a", "b", "c"}
NodeServices == {"svc"}
EdgeWeights  == {1}

NewGraph == [nodes |-> <<>>, edges |-> <<>>]

NewNode(id, service, endpoint, method) ==
    [ID |-> id, Service |-> service, Endpoint |-> endpoint, Method |-> method]

\* AddNodeTo storing the new node whether or not the id is present
AddNodeToOverwriting(g, id, service, endpoint, method) ==
    [g EXCEPT !.nodes = MapPut(@, id, NewNode(id, service, endpoint, method))]

\* the node g.AddNode(...) returns: the one held under the id, else the new one
AddNodeReturns(g, id, service, endpoint, method) ==
    IF id \in DOMAIN g.nodes THEN g.nodes[id]
    ELSE NewNode(id, service, endpoint, method)

\* the graph after g.AddNode(...): an id already present keeps its node
AddNodeTo(g, id, service, endpoint, method) ==
    IF id \in DOMAIN g.nodes THEN g
    ELSE [g EXCEPT !.nodes = MapPut(@, id, NewNode(id, service, endpoint, method))]

\* the edge g.AddEdge(from, to, weight, dep) returns
NewEdge(from, to, weight) == [From |-> from, To |-> to, Weight |-> weight]

\* AddEdgeTo leaving out an edge between a pair of nodes already joined
AddEdgeToOncePerPair(g, from, to, weight) ==
    IF \E i \in DOMAIN g.edges : g.edges[i].From = from /\ g.edges[i].To = to THEN g
    ELSE [g EXCEPT !.edges = Append(@, [From |-> from, To |-> to, Weight |-> weight])]

\* the graph after g.AddEdge(from, to, weight, dep)
AddEdgeTo(g, from, to, weight) ==
    [g EXCEPT !.edges = Append(@, [From |-> from, To |-> to, Weight |-> weight])]

\* (node, exists): Nil when no node has that id
GetNode(g, id) == IF id \in DOMAIN g.nodes THEN Ptr(g.nodes[id]) ELSE Nil

GetOutgoingEdges(g, node) == SelectSeq(g.edges, LAMBDA edge : edge.From.ID = node.ID)

GetIncomingEdges(g, node) == SelectSeq(g.edges, LAMBDA edge : edge.To.ID = node.ID)

NodeCount(g) == Cardinality(DOMAIN g.nodes)
EdgeCount(g) == Len(g.edges)

RECURSIVE hasCycleDFS(_, _, _, _)
RECURSIVE hasCycleEdges(_, _, _, _, _)

\* GetOutgoingEdges(node) reads node.ID for the first edge of g.edges: a nil
\* node is a nil pointer dereference as soon as the graph holds an edge
GetOutgoingEdgesPanics(g, node) == node = Nil /\ g.edges # <<>>

\* Returns whether a back edge was met, whether the call panicked, and the two
\* maps as the call leaves them.
hasCycleDFS(g, nodeID, visited, recStack) ==
    LET node == GetNode(g, nodeID) IN
    IF GetOutgoingEdgesPanics(g, node)
    THEN [found |-> FALSE, panicked |-> TRUE,
          visited |-> visited \cup {nodeID}, recStack |-> recStack \cup {nodeID}]
    ELSE LET out == IF node = Nil THEN <<>> ELSE GetOutgoingEdges(g, Deref(node))
             r == hasCycleEdges(g, out, 1, visited \cup {nodeID}, recStack \cup {nodeID})
         IN IF r.found \/ r.panicked THEN r
            ELSE [found |-> FALSE, panicked |-> FALSE,
                  visited |-> r.visited, recStack |-> r.recStack \ {nodeID}]

\* for _, edge := range g.GetOutgoingEdges(node), from the i-th edge on
hasCycleEdges(g, out, i, visited, recStack) ==
    IF i > Len(out)
    THEN [found |-> FALSE, panicked |-> FALSE, visited |-> visited, recStack |-> recStack]
    ELSE IF out[i].To.ID \notin visited
         THEN LET r == hasCycleDFS(g, out[i].To.ID, visited, recStack) IN
              IF r.found \/ r.panicked THEN r
              ELSE hasCycleEdges(g, out, i + 1, r.visited, r.recStack)
         ELSE IF out[i].To.ID \in recStack
              THEN [found |-> TRUE, panicked |-> FALSE,
                    visited |-> visited, recStack |-> recStack]
              ELSE hasCycleEdges(g, out, i + 1, visited, recStack)

\* HasCycleLoop searching from the first node of the range only
HasCycleLoopFirstOnly(g, order, i, visited, recStack) ==
    IF i > Len(order) THEN [value |-> FALSE, panicked |-> FALSE]
    ELSE LET r == hasCycleDFS(g, order[i], visited, recStack) IN
         [value |-> r.found, panicked |-> r.panicked]

RECURSIVE HasCycleLoop(_, _, _, _, _)
\* for id := range g.nodes, in the order the range visits the ids; value is
\* what HasCycle returns when it does not panic
HasCycleLoop(g, order, i, visited, recStack) ==
    IF i > Len(order) THEN [value |-> FALSE, panicked |-> FALSE]
    ELSE IF order[i] \notin visited
         THEN LET r == hasCycleDFS(g, order[i], visited, recStack) IN
              IF r.panicked THEN [value |-> FALSE, panicked |-> TRUE]
              ELSE IF r.found THEN [value |-> TRUE, panicked |-> FALSE]
              ELSE HasCycleLoop(g, order, i + 1, r.visited, r.recStack)
         ELSE HasCycleLoop(g, order, i + 1, visited, recStack)

\* every outcome HasCycle may have, over the orders of its range over g.nodes
HasCycleReturns(g) ==
    {HasCycleLoop(g, order, 1, {}, {}) : order \in Perms(DOMAIN g.nodes)}

\* InDegrees counting, for every node, the edges that leave it
InDegreesOfSources(g) ==
    [id \in (DOMAIN g.nodes) \cup {g.edges[i].From.ID : i \in DOMAIN g.edges} |->
        Cardinality({i \in DOMAIN g.edges : g.edges[i].From.ID = id})]

\* inDegree[id] = 0 for the ids of g.nodes, then inDegree[edge.To.ID]++ for every edge
InDegrees(g) ==
    [id \in (DOMAIN g.nodes) \cup {g.edges[i].To.ID : i \in DOMAIN g.edges} |->
        Cardinality({i \in DOMAIN g.edges : g.edges[i].To.ID = id})]

RECURSIVE KahnEdges(_, _, _, _)
\* for _, edge := range g.GetOutgoingEdges(node): decrement, enqueue at zero
KahnEdges(out, i, inDegree, queue) ==
    IF i > Len(out) THEN [inDegree |-> inDegree, queue |-> queue]
    ELSE LET to == out[i].To.ID
             d  == inDegree[to] - 1
         IN KahnEdges(out, i + 1, [inDegree EXCEPT ![to] = d],
                      IF d = 0 THEN Append(queue, out[i].To) ELSE queue)

RECURSIVE KahnLoop(_, _, _, _)
\* for len(queue) > 0
KahnLoop(g, inDegree, queue, sorted) ==
    IF queue = <<>> THEN sorted
    ELSE LET node == Head(queue)
             r == KahnEdges(GetOutgoingEdges(g, node), 1, inDegree, Tail(queue))
         IN KahnLoop(g, r.inDegree, r.queue, Append(sorted, node))

\* the sorted lists Kahn's algorithm may build, over the orders of the range
\* over inDegree that fills the queue
KahnReturns(g) ==
    LET inDegree == InDegrees(g)
        zero == {id \in DOMAIN inDegree : inDegree[id] = 0}
    IN {KahnLoop(g, inDegree, [k \in DOMAIN order |-> Deref(GetNode(g, order[k]))], <<>>) :
            order \in Perms(zero)}

\* TopologicalSort without the HasCycle test
TopologicalSortReturnsUnchecked(g) ==
    {[sorted |-> Ptr(sorted), err |-> FALSE, panicked |-> FALSE] : sorted \in KahnReturns(g)}

\* every outcome of TopologicalSort: a panic of its HasCycle call, or the
\* (sorted, err) it returns; sorted is Nil with an error
TopologicalSortReturns(g) ==
    UNION {IF cyclic.panicked
           THEN {[sorted |-> Nil, err |-> FALSE, panicked |-> TRUE]}
           ELSE IF cyclic.value
           THEN {[sorted |-> Nil, err |-> TRUE, panicked |-> FALSE]}
           ELSE {[sorted |-> Ptr(sorted), err |-> FALSE, panicked |-> FALSE] :
                    sorted \in KahnReturns(g)} :
           cyclic \in HasCycleReturns(g)}

RECURSIVE findPathsDFS(_, _, _, _, _, _, _)
RECURSIVE findPathsEdges(_, _, _, _, _, _, _, _)

\* Returns the visited map and the paths found as the call leaves them.
findPathsDFS(g, current, endID, depthBound, currentPath, visited, paths) ==
    IF Len(currentPath) > depthBound THEN [visited |-> visited, paths |-> paths]
    ELSE LET path == Append(currentPath, current)
             seen == visited \cup {current.ID}
         IN IF current.ID = endID
            THEN [visited |-> seen \ {current.ID}, paths |-> Append(paths, path)]
            ELSE LET r == findPathsEdges(g, GetOutgoingEdges(g, current), 1, endID,
                                         depthBound, path, seen, paths)
                 IN [visited |-> r.visited \ {current.ID}, paths |-> r.paths]

\* for _, edge := range g.GetOutgoingEdges(current), from the i-th edge on
findPathsEdges(g, out, i, endID, depthBound, currentPath, visited, paths) ==
    IF i > Len(out) THEN [visited |-> visited, paths |-> paths]
    ELSE IF out[i].To.ID \notin visited
         THEN LET r == findPathsDFS(g, out[i].To, endID, depthBound, currentPath, visited, paths)
              IN findPathsEdges(g, out, i + 1, endID, depthBound, currentPath, r.visited, r.paths)
         ELSE findPathsEdges(g, out, i + 1, endID, depthBound, currentPath, visited, paths)

\* FindAllPaths searching one hop deeper than its maxDepth argument (depthBound)
FindAllPathsOneDeeper(g, startID, endID, depthBound) ==
    IF GetNode(g, startID) = Nil THEN <<>>
    ELSE findPathsDFS(g, Deref(GetNode(g, startID)), endID, depthBound + 1, <<>>, {}, <<>>).paths

\* the paths returned; no path (nil) when the start node does not exist
FindAllPaths(g, startID, endID, depthBound) ==
    IF GetNode(g, startID) = Nil THEN <<>>
    ELSE findPathsDFS(g, Deref(GetNode(g, startID)), endID, depthBound, <<>>, {}, <<>>).paths

----------------------------------------------------------------------------
\* The metrics snapshots explored.  Every (service, path) has its own resource
\* figures, so that the direct costs of different endpoints differ.
ResourceOf(s, path) ==
    CASE s = "A" /\ path = "/x" ->
            [CPUCores |-> 1, MemoryMB |-> 1024, NetworkInMB |-> 0, NetworkOutMB |-> 0,
             DiskReadMB |-> 0, DiskWriteMB |-> 0]
      [] s = "A" /\ path # "/x" ->
            [CPUCores |-> 2, MemoryMB |-> 0, NetworkInMB |-> 1024, NetworkOutMB |-> 0,
             DiskReadMB |-> 0, DiskWriteMB |-> 0]
      [] s # "A" /\ path = "/x" ->
            [CPUCores |-> 0, MemoryMB |-> 2048, NetworkInMB |-> 1024, NetworkOutMB |-> 1024,
             DiskReadMB |-> 1024, DiskWriteMB |-> 0]
      [] OTHER ->
            [CPUCores |-> 1, MemoryMB |-> 1024, NetworkInMB |-> 0, NetworkOutMB |-> 0,
             DiskReadMB |-> 1024, DiskWriteMB |-> 1024]

\* The entry of key "path:method" in the metrics of service s, Nil when the
\* service has no such key: "/x:GET" has resource and performance data,
\* "/y:GET" resource data only, "/y:POST" both in "A" and no resource data in
\* "B", "/x:POST" no resource data in "A" and no entry in "B".
EndpointMetricsOf(s, path, method) ==
    CASE method = "GET" ->
            Ptr([Resource    |-> Ptr(ResourceOf(s, path)),
                 Performance |-> IF path = "/x" THEN Ptr([RequestRate |-> 1]) ELSE Nil])
      [] method # "GET" /\ s = "A" ->
            Ptr([Resource    |-> IF path = "/x" THEN Nil ELSE Ptr(ResourceOf("B", path)),
                 Performance |-> Ptr([RequestRate |-> 2])])
      [] OTHER ->
            IF path = "/x" THEN Nil
            ELSE Ptr([Resource |-> Nil, Performance |-> Ptr([RequestRate |-> 1])])

ServiceMetricsOf(s) ==
    LET keys == {<<p, m>> \in Paths \X Methods : EndpointMetricsOf(s, p, m) # Nil} IN
    [ServiceName |-> s,
     Endpoints |-> [k \in {Key(pm[1], pm[2]) : pm \in keys} |->
                      LET pm == CHOOSE q \in keys : Key(q[1], q[2]) = k
                      IN Deref(EndpointMetricsOf(s, pm[1], pm[2]))]]

NewMetricsSnapshot == [Services |-> <<>>]

\* ms.Services[sm.ServiceName] = sm
AddServiceMetrics(ms, sm) ==
    [ms EXCEPT !.Services = MapPut(@, sm.ServiceName, sm)]

\* Every service has metrics, or only "A" has.
Snapshots ==
    {AddServiceMetrics(NewMetricsSnapshot, ServiceMetricsOf("A")),
     AddServiceMetrics(AddServiceMetrics(NewMetricsSnapshot, ServiceMetricsOf("A")),
                       ServiceMetricsOf("B"))}

\* The call graphs explored: the services hold at most two endpoints between
\* them (the same path and method may occur twice in one service), each with
\* its Service back-reference set as Service.AddEndpoint sets it; the
\* dependency list holds at most MaxDeps dependencies, each from the path of
\* an endpoint of the call graph (the walk reads no other dependency) to any
\* (service, path) pair, present or not.
EndpointChoices(s) ==
    [Path : Paths, Method : Methods, Service : {Ptr(s)}]

EndpointLists(s) ==
    UNION {[1..n -> EndpointChoices(s)] : n \in 0..2}

ServiceMaps ==
    {f \in [ServiceNames -> UNION {EndpointLists(s) : s \in ServiceNames}] :
        /\ \A s \in ServiceNames : f[s] \in EndpointLists(s)
        /\ Len(f["A"]) + Len(f["B"]) <= 2}

DependencyChoices(eps) ==
    {d \in [FromService : ServiceNames, FromEndpoint : Paths,
            ToService : ServiceNames, ToEndpoint : Paths, Weight : Weights] :
        \E i \in DOMAIN eps[d.FromService] : eps[d.FromService][i].Path = d.FromEndpoint}

NewService(name, endpoints) == [Name |-> name, Endpoints |-> endpoints]

----------------------------------------------------------------------------
\* The cost engine: a caller holding a call graph, a metrics snapshot and a
\* time range runs one calculation over them.

NoResult == [op |-> "none"]

\* the calls made on a new graph, none yet: for every id, the service, endpoint
\* and method of the first AddNode call made with it, and the (from, to,
\* weight) of the AddEdge calls in call order
NoHistory == [firstAdded |-> <<>>, edgesAdded |-> <<>>]

\* DefaultConfig().Output.TopN
DefaultTopN == 10

\* the configured values of Output.TopN explored (validation keeps it >= 1)
TopNs == {1}

\* a configuration whose Output.TopN is n
NewConfig(n) == [Output |-> [TopN |-> n]]

Init ==
    /\ \E eps \in ServiceMaps, n \in 0..MaxDeps :
         \E deps \in [1..n -> DependencyChoices(eps)] :
            callGraph = [Services |-> [s \in ServiceNames |-> NewService(s, eps[s])],
                         Dependencies |-> deps]
    /\ metricsSnapshot \in Snapshots
    /\ durationHours \in Durations
    /\ config \in {NewConfig(n) : n \in TopNs}
    /\ report = Nil
    /\ graph = NewGraph
    /\ result = NoResult
    /\ history = NoHistory

\* CalculateCosts from the ranking on, given the orders in which the two
\* ranges over the report's maps visit the endpoint costs
RankAndRecommend(rep, walkTop, walkRec) ==
    LET ranked == [rep EXCEPT !.TopCostly = findTopCostlyEndpoints(walkTop, TopCostlyN)] IN
    [ranked EXCEPT !.Recommendations = generateRecommendations(ranked, walkRec)]

\* CalculateCostsReturns returning nothing when the dependency list holds a
\* self-loop or a mutual cycle
CalculateCostsReturnsFailingOnCycles(cg, ms, hours) ==
    IF \E i, j \in DOMAIN cg.Dependencies :
          /\ cg.Dependencies[i].ToService = cg.Dependencies[j].FromService
          /\ cg.Dependencies[i].ToEndpoint = cg.Dependencies[j].FromEndpoint
          /\ cg.Dependencies[j].ToService = cg.Dependencies[i].FromService
          /\ cg.Dependencies[j].ToEndpoint = cg.Dependencies[i].FromEndpoint
    THEN {}
    ELSE UNION {LET rep == CostsOfServices(cg, ms, hours, order)
                    walks == Walks(rep)
                IN {RankAndRecommend(rep, walkTop, walkRec) :
                       walkTop \in walks, walkRec \in walks} :
                order \in Perms(DOMAIN cg.Services)}

\* every report CalculateCosts may return, over the orders of its map ranges
CalculateCostsReturns(cg, ms, hours) ==
    UNION {LET rep == CostsOfServices(cg, ms, hours, order)
               walks == Walks(rep)
           IN {RankAndRecommend(rep, walkTop, walkRec) : walkTop \in walks, walkRec \in walks} :
           order \in Perms(DOMAIN cg.Services)}

\* report, err := calculator.CalculateCosts(callGraph, metricsSnapshot, timeRange)
CalculateCosts ==
    /\ report = Nil
    /\ \E r \in CalculateCostsReturns(callGraph, metricsSnapshot, durationHours) :
          report' = Ptr(r)
    /\ result' = [op |-> "CalculateCosts", err |-> Nil]    \* return report, nil
    /\ UNCHANGED <<callGraph, metricsSnapshot, durationHours, graph, config, history>>

Next == CalculateCosts

Spec == Init /\ [][Next]_vars

----------------------------------------------------------------------------
\* The ranking step of CalculateCosts on its own: findTopCostlyEndpoints
\* applied to the endpoint costs of a report in the order its ranges meet them.

MaxRanked == 11      \* endpoint costs in the report being ranked

\* the total costs of the endpoint costs being ranked: the sort only compares
\* and swaps, so two values put every pair of positions in either order
RankedCosts == {1, 2}

\* the k-th endpoint cost met, with total cost c
RankedEndpoint(k, c) ==
    [Service |-> "A", Endpoint |-> "/e" \o ToString(k), TotalCost |-> c]

RankInit ==
    /\ result = NoResult
    /\ config \in {NewConfig(n) : n \in TopNs}
    /\ report = Nil
    /\ callGraph = NewCallGraph
    /\ metricsSnapshot = NewMetricsSnapshot
    /\ durationHours = 0
    /\ graph = NewGraph
    /\ history = NoHistory

\* report.TopCostly = c.findTopCostlyEndpoints(report, 10), the ranges over
\* the report's maps meeting its endpoint costs in the order of allEndpoints
FindTopCostlyEndpoints(allEndpoints) ==
    /\ result' = [op |-> "findTopCostlyEndpoints", allEndpoints |-> allEndpoints,
                  TopCostly |-> findTopCostlyEndpoints(allEndpoints, TopCostlyN)]
    /\ UNCHANGED <<config, report, callGraph, metricsSnapshot, durationHours, graph, history>>

\* one call per behaviour: the function keeps nothing between calls
RankNext ==
    /\ result = NoResult
    /\ \E n \in 0..MaxRanked : \E costs \in [1..n -> RankedCosts] :
          FindTopCostlyEndpoints([k \in 1..n |-> RankedEndpoint(k, costs[k])])

RankSpec == RankInit /\ [][RankNext]_vars

----------------------------------------------------------------------------
\* NewCostBreakdown on its own, on the metrics of one endpoint.

MaxHours == 3      \* longest time range, in hours

\* the resource metrics handed to NewCostBreakdown
ResourceChoices ==
    [CPUCores : {0, 1, 2}, MemoryMB : {0, 1024}, NetworkInMB : {0, 1024},
     NetworkOutMB : {0, 2048}, DiskReadMB : {0, 1024}, DiskWriteMB : {0, 2048}]

\* the performance metrics handed to NewCostBreakdown
PerformanceChoices == [RequestRate : {0, 5}]

BreakdownInit ==
    /\ result = NoResult
    /\ config = NewConfig(DefaultTopN)
    /\ report = Nil
    /\ callGraph = NewCallGraph
    /\ metricsSnapshot = NewMetricsSnapshot
    /\ durationHours = 0
    /\ graph = NewGraph
    /\ history = NoHistory

\* cb := models.NewCostBreakdown(metrics, perfMetrics, model, durationHours)
NewCostBreakdownCall(metrics, perfMetrics, model, hours) ==
    /\ result' = [op |-> "NewCostBreakdown", metrics |-> metrics,
                  perfMetrics |-> perfMetrics, model |-> model, hours |-> hours,
                  cb |-> NewCostBreakdown(metrics, perfMetrics, model, hours)]
    /\ UNCHANGED <<config, report, callGraph, metricsSnapshot, durationHours, graph, history>>

\* one call per behaviour: the function keeps nothing between calls
BreakdownNext ==
    /\ result = NoResult
    /\ \E metrics \in {Nil} \cup {Ptr(m) : m \in ResourceChoices},
          perfMetrics \in {Nil} \cup {Ptr(p) : p \in PerformanceChoices},
          model \in {Nil, Ptr(DefaultCostModel)},
          hours \in 0..MaxHours :
          NewCostBreakdownCall(metrics, perfMetrics, model, hours)

BreakdownSpec == BreakdownInit /\ [][BreakdownNext]_vars

----------------------------------------------------------------------------
\* The downstream walk of one endpoint on its own, as the second loop of
\* CalculateCosts runs it, on call graphs deep enough to reach its depth
\* bound: one service whose endpoints /e0 ... /en call each other in a chain,
\* with up to MaxExtra further dependencies from the first two endpoints to
\* the first four (self-loops, back edges and shortcuts included).

MaxChain == 12      \* dependencies of the chain /e0 -> /e1 -> ... -> /en
MaxExtra == 2       \* further dependencies

\* the endpoints the further dependencies leave and reach, by number
WalkFrom == {0, 1}
WalkTo   == 0..3

WalkPath(k) == "/e" \o ToString(k)

\* the endpoint /ek of service "A", as Service.AddEndpoint stores it
WalkEndpoint(k) == [Path |-> WalkPath(k), Method |-> "GET", Service |-> Ptr("A")]

WalkDependency(from, to, weight) ==
    [FromService |-> "A", FromEndpoint |-> WalkPath(from),
     ToService |-> "A", ToEndpoint |-> WalkPath(to), Weight |-> weight]

\* the chain of n dependencies of weight 1, then the further ones of weight 2
WalkCallGraph(n, extras) ==
    [Services |-> [s \in {"A"} |->
                     NewService("A", [k \in 1..(n + 1) |-> WalkEndpoint(k - 1)])],
     Dependencies |-> [k \in 1..n |-> WalkDependency(k - 1, k, 1)]
                      \o [j \in DOMAIN extras |->
                             WalkDependency(extras[j][1], extras[j][2], 2)]]

\* a snapshot with resource metrics for every endpoint of the chain
WalkSnapshot ==
    AddServiceMetrics(NewMetricsSnapshot,
        [ServiceName |-> "A",
         Endpoints |-> [key \in {Key(WalkPath(k), "GET") : k \in 0..(MaxChain + 1)} |->
                          Deref(EndpointMetricsOf("A", "/e", "GET"))]])

WalkInit ==
    /\ \E n \in 0..MaxChain, m \in 0..MaxExtra :
         \E extras \in [1..m -> WalkFrom \X WalkTo] :
            callGraph = WalkCallGraph(n, extras)
    /\ metricsSnapshot = WalkSnapshot
    /\ durationHours \in Durations
    /\ report = Nil
    /\ result = NoResult
    /\ config = NewConfig(DefaultTopN)
    /\ graph = NewGraph
    /\ history = NoHistory

\* serviceCost.Endpoints after the first loop over the endpoints of service "A"
WalkEndpointCosts ==
    DirectLoop(callGraph.Services["A"].Endpoints, GetServiceMetrics(metricsSnapshot, "A"),
               durationHours, 1,
               [ServiceName |-> "A", Endpoints |-> <<>>, TotalCost |-> 0,
                DirectCost |-> 0, AttributedCost |-> 0]).Endpoints

\* the body of the second loop for the k-th endpoint of service "A":
\* downstreamCosts := c.calculateDownstreamCosts(endpoint, callGraph,
\*     serviceCost.Endpoints, 0, make(map[string]bool)), and the totals
DownstreamWalk(k) ==
    LET endpoint == callGraph.Services["A"].Endpoints[k] IN
    /\ result' = [op |-> "calculateDownstreamCosts", endpoint |-> endpoint,
                  ec |-> AttributeEndpoint(endpoint, callGraph, WalkEndpointCosts),
                  visited |-> calculateDownstreamCosts(endpoint, callGraph,
                                  WalkEndpointCosts, 0, {}).visited]
    /\ UNCHANGED <<config, report, callGraph, metricsSnapshot, durationHours, graph, history>>

\* one walk per behaviour: the walk keeps nothing between calls
WalkNext ==
    /\ result = NoResult
    /\ \E k \in DOMAIN callGraph.Services["A"].Endpoints :
          /\ k - 1 \in WalkFrom
          /\ DownstreamWalk(k)

WalkSpec == WalkInit /\ [][WalkNext]_vars

----------------------------------------------------------------------------
\* A cost report on its own: a caller adds service costs to a new report and
\* recalculates its total.

MaxReportTotal == 6      \* AddServiceCost is called while TotalCost is below it

ReportedServices == {"A", "B", "C"}
ServiceTotals    == {1, 2}

\* a service cost with that name and total cost
NewServiceCost(name, total) ==
    [ServiceName |-> name, Endpoints |-> <<>>, TotalCost |-> total,
     DirectCost |-> total, AttributedCost |-> 0]

ReportInit ==
    /\ report = Ptr(NewCostReport(Ptr(DefaultCostModel)))
    /\ result = NoResult
    /\ config = NewConfig(DefaultTopN)
    /\ callGraph = NewCallGraph
    /\ metricsSnapshot = NewMetricsSnapshot
    /\ durationHours = 0
    /\ graph = NewGraph
    /\ history = NoHistory

\* report.AddServiceCost(sc)
AddServiceCostCall(sc) ==
    /\ Deref(report).TotalCost < MaxReportTotal
    /\ report' = Ptr(AddServiceCost(Deref(report), sc))
    /\ result' = [op |-> "AddServiceCost", sc |-> sc]
    /\ UNCHANGED <<config, callGraph, metricsSnapshot, durationHours, graph, history>>

\* report.CalculateTotalCost()
CalculateTotalCostCall ==
    /\ report' = Ptr(CalculateTotalCost(Deref(report)))
    /\ result' = [op |-> "CalculateTotalCost"]
    /\ UNCHANGED <<config, callGraph, metricsSnapshot, durationHours, graph, history>>

ReportNext ==
    \/ \E name \in ReportedServices, total \in ServiceTotals :
          AddServiceCostCall(NewServiceCost(name, total))
    \/ CalculateTotalCostCall

ReportSpec == ReportInit /\ [][ReportNext]_vars

----------------------------------------------------------------------------
\* The graph engine: a caller builds a graph with AddNode and AddEdge, edges
\* joining nodes AddNode returned, and then runs one of the algorithms on it.
\* The algorithms only read the graph and allocate their maps and slices per
\* call, so a later call on the same graph returns what a first call returns;
\* a behaviour therefore ends with the first call.

GraphInit ==
    /\ graph = NewGraph
    /\ result = NoResult
    /\ callGraph = NewCallGraph
    /\ metricsSnapshot = NewMetricsSnapshot
    /\ durationHours = 0
    /\ report = Nil
    /\ config = NewConfig(DefaultTopN)
    /\ history = NoHistory

\* g.AddNode(id, service, endpoint, method, nil)
AddNode(id, service, endpoint, method) ==
    /\ result = NoResult
    /\ graph' = AddNodeTo(graph, id, service, endpoint, method)
    /\ UNCHANGED <<result, callGraph, metricsSnapshot, durationHours, report, config, history>>

\* g.AddEdge(from, to, weight, nil), from and to being nodes of the graph
AddEdge(from, to, weight) ==
    /\ result = NoResult
    /\ Len(graph.edges) < MaxEdges
    /\ graph' = AddEdgeTo(graph, from, to, weight)
    /\ UNCHANGED <<result, callGraph, metricsSnapshot, durationHours, report, config, history>>

\* no algorithm has run on the graph yet: result holds nothing, or what the
\* last AddNode or AddEdge returned
Building == result.op \in {"none", "AddNode", "AddEdge"}

\* g.HasCycle()
HasCycle ==
    /\ Building
    /\ \E r \in HasCycleReturns(graph) :
          result' = [op |-> "HasCycle", value |-> r.value, panicked |-> r.panicked]
    /\ UNCHANGED <<graph, callGraph, metricsSnapshot, durationHours, report, config, history>>

\* sorted, err := g.TopologicalSort()
TopologicalSort ==
    /\ Building
    /\ \E r \in TopologicalSortReturns(graph) :
          result' = [op |-> "TopologicalSort", sorted |-> r.sorted, err |-> r.err,
                     panicked |-> r.panicked]
    /\ UNCHANGED <<graph, callGraph, metricsSnapshot, durationHours, report, config, history>>

\* paths := g.FindAllPaths(startID, endID, maxDepth)
FindAllPathsCall(startID, endID, depthBound) ==
    /\ result = NoResult
    /\ result' = [op |-> "FindAllPaths", startID |-> startID, endID |-> endID,
                  maxDepth |-> depthBound,
                  paths |-> FindAllPaths(graph, startID, endID, depthBound)]
    /\ UNCHANGED <<graph, callGraph, metricsSnapshot, durationHours, report, config, history>>

GraphNext ==
    \/ \E id \in NodeIDs, service \in NodeServices : AddNode(id, service, "/e", "GET")
    \/ \E from, to \in DOMAIN graph.nodes, weight \in EdgeWeights :
          AddEdge(graph.nodes[from], graph.nodes[to], weight)
    \/ HasCycle
    \/ TopologicalSort
    \/ \E startID, endID \in NodeIDs, depthBound \in 0..MaxPathDepth :
          FindAllPathsCall(startID, endID, depthBound)

GraphSpec == GraphInit /\ [][GraphNext]_vars

----------------------------------------------------------------------------
\* Building a graph call by call.  AddNode is called with any id and
\* attributes; AddEdge joins any two nodes the caller holds, the nodes AddNode
\* returned and a node that was never added to this graph; HasCycle or
\* TopologicalSort may then run on whatever was built.

MaxBuildEdges == 2      \* AddEdge calls made on the graph

BuildIDs       == {"a", "b"}
BuildEndpoints == {"/e", "/f"}

\* a node the caller holds that no AddNode call of this graph returned
StrayNode == NewNode("x", "svc", "/e", "GET")

\* node := g.AddNode(id, service, endpoint, method, nil)
AddNodeCall(id, service, endpoint, method) ==
    /\ Building
    /\ graph' = AddNodeTo(graph, id, service, endpoint, method)
    /\ result' = [op |-> "AddNode", id |-> id, service |-> service,
                  endpoint |-> endpoint, method |-> method,
                  node |-> AddNodeReturns(graph, id, service, endpoint, method)]
    /\ history' = [history EXCEPT !.firstAdded =
                      IF id \in DOMAIN @ THEN @
                      ELSE MapPut(@, id, <<service, endpoint, method>>)]
    /\ UNCHANGED <<callGraph, metricsSnapshot, durationHours, report, config>>

\* edge := g.AddEdge(from, to, weight, nil)
AddEdgeCall(from, to, weight) ==
    /\ Building
    /\ Len(history.edgesAdded) < MaxBuildEdges
    /\ graph' = AddEdgeTo(graph, from, to, weight)
    /\ result' = [op |-> "AddEdge", edge |-> NewEdge(from, to, weight)]
    /\ history' = [history EXCEPT !.edgesAdded = Append(@, <<from, to, weight>>)]
    /\ UNCHANGED <<callGraph, metricsSnapshot, durationHours, report, config>>

\* the nodes the caller holds
HeldNodes == {graph.nodes[id] : id \in DOMAIN graph.nodes} \cup {StrayNode}

BuildNext ==
    \/ \E id \in BuildIDs, endpoint \in BuildEndpoints : AddNodeCall(id, "svc", endpoint, "GET")
    \/ \E from, to \in HeldNodes, weight \in EdgeWeights : AddEdgeCall(from, to, weight)
    \/ HasCycle
    \/ TopologicalSort

BuildSpec == GraphInit /\ [][BuildNext]_vars

----------------------------------------------------------------------------
\* internal/analyzer/graph_builder.go: the graph builder turning the call
\* graph it has gathered into the graph structure.

MaxBuilderDeps == 2      \* dependencies of the call graph handed to the builder

\* fmt.Sprintf("%s:%s:%s", service, path, method)
NodeIDOf(service, path, method) == service \o ":" \o path \o ":" \o method

RECURSIVE BuildEndpointNodes(_, _, _)
\* for _, endpoint := range service.Endpoints { gb.graph.AddNode(...) }
BuildEndpointNodes(g, service, i) ==
    IF i > Len(service.Endpoints) THEN g
    ELSE LET endpoint == service.Endpoints[i] IN
         BuildEndpointNodes(
            AddNodeTo(g, NodeIDOf(service.Name, endpoint.Path, endpoint.Method),
                      service.Name, endpoint.Path, endpoint.Method),
            service, i + 1)

RECURSIVE BuildServiceNodes(_, _, _, _)
\* for _, service := range gb.callGraph.Services, in the order visited
BuildServiceNodes(g, cg, order, i) ==
    IF i > Len(order) THEN g
    ELSE BuildServiceNodes(BuildEndpointNodes(g, cg.Services[order[i]], 1), cg, order, i + 1)

\* BuildDependencyEdge adding the edge between the endpoint nodes it found,
\* without creating the missing ones
BuildDependencyEdgeNoVirtual(g, dep) ==
    AddEdgeTo(g, NewNode(NodeIDOf(dep.FromService, dep.FromEndpoint, "GET"),
                         dep.FromService, dep.FromEndpoint, "GET"),
                 NewNode(NodeIDOf(dep.ToService, dep.ToEndpoint, "GET"),
                         dep.ToService, dep.ToEndpoint, "GET"),
              dep.Weight)

\* the body of the loop over the dependencies: both nodes looked up first,
\* then each created as a virtual node if it was missing, then the edge added
BuildDependencyEdge(g, dep) ==
    LET fromID   == NodeIDOf(dep.FromService, dep.FromEndpoint, "GET")
        toID     == NodeIDOf(dep.ToService, dep.ToEndpoint, "GET")
        fromNode == GetNode(g, fromID)
        toNode   == GetNode(g, toID)
        g1   == IF fromNode = Nil
                THEN AddNodeTo(g, fromID, dep.FromService, dep.FromEndpoint, "GET") ELSE g
        from == IF fromNode = Nil
                THEN AddNodeReturns(g, fromID, dep.FromService, dep.FromEndpoint, "GET")
                ELSE Deref(fromNode)
        g2   == IF toNode = Nil
                THEN AddNodeTo(g1, toID, dep.ToService, dep.ToEndpoint, "GET") ELSE g1
        to   == IF toNode = Nil
                THEN AddNodeReturns(g1, toID, dep.ToService, dep.ToEndpoint, "GET")
                ELSE Deref(toNode)
    IN AddEdgeTo(g2, from, to, dep.Weight)

RECURSIVE BuildDependencyEdges(_, _, _)
\* for _, dep := range gb.callGraph.Dependencies
BuildDependencyEdges(g, deps, i) ==
    IF i > Len(deps) THEN g
    ELSE BuildDependencyEdges(BuildDependencyEdge(g, deps[i]), deps, i + 1)

\* every graph buildGraphStructure may leave in a new builder's graph, over
\* the orders of its range over the services
buildGraphStructureReturns(cg) ==
    {BuildDependencyEdges(BuildServiceNodes(NewGraph, cg, order, 1), cg.Dependencies, 1) :
        order \in Perms(DOMAIN cg.Services)}

\* the endpoints of the services handed to the builder: none or one each
BuilderEndpointLists(s) ==
    UNION {[1..n -> [Path : {"/x"}, Method : Methods, Service : {Ptr(s)}]] : n \in 0..1}

\* the dependencies handed to the builder, from and to any (service, path)
BuilderDependencies ==
    [FromService : ServiceNames, FromEndpoint : Paths,
     ToService : ServiceNames, ToEndpoint : Paths, Weight : {2}]

\* NewGraphBuilder, and the call graph Build has gathered before its step 3
BuilderInit ==
    /\ \E a \in BuilderEndpointLists("A"), b \in BuilderEndpointLists("B"),
          n \in 0..MaxBuilderDeps :
         \E deps \in [1..n -> BuilderDependencies] :
            callGraph = [Services |-> [s \in ServiceNames |->
                                         NewService(s, IF s = "A" THEN a ELSE b)],
                         Dependencies |-> deps]
    /\ graph = NewGraph
    /\ result = NoResult
    /\ metricsSnapshot = NewMetricsSnapshot
    /\ durationHours = 0
    /\ report = Nil
    /\ config = NewConfig(DefaultTopN)
    /\ history = NoHistory

\* gb.buildGraphStructure(), the outcome of its closing HasCycle call kept
buildGraphStructure ==
    /\ result = NoResult
    /\ \E g \in buildGraphStructureReturns(callGraph) :
          /\ graph' = g
          /\ \E r \in HasCycleReturns(g) :
                result' = [op |-> "buildGraphStructure", cyclic |-> r.value,
                           panicked |-> r.panicked]
    /\ UNCHANGED <<callGraph, metricsSnapshot, durationHours, report, config, history>>

BuilderNext == buildGraphStructure

BuilderSpec == BuilderInit /\ [][BuilderNext]_vars

----------------------------------------------------------------------------
\* cmd/analyze.go, cmd/calculate.go: the call graph written to a JSON file by
\* the exporter and read back by the calculate command.

MaxCmdDeps == 1      \* dependencies of the exported call graph

\* json.Encoder.Encode of an Endpoint: the fields by their tags, Service
\* (tagged "-") left out
EncodeEndpoint(endpoint) == [path |-> endpoint.Path, method |-> endpoint.Method]

EncodeService(service) ==
    [name |-> service.Name,
     endpoints |-> [i \in DOMAIN service.Endpoints |-> EncodeEndpoint(service.Endpoints[i])]]

EncodeDependency(dep) ==
    [from_service |-> dep.FromService, from_endpoint |-> dep.FromEndpoint,
     to_service |-> dep.ToService, to_endpoint |-> dep.ToEndpoint, weight |-> dep.Weight]

\* what ExportCallGraphJSON writes
EncodeCallGraph(cg) ==
    [services |-> [n \in DOMAIN cg.Services |-> EncodeService(cg.Services[n])],
     dependencies |-> [i \in DOMAIN cg.Dependencies |-> EncodeDependency(cg.Dependencies[i])]]

\* json.Decoder.Decode into an Endpoint: Service keeps its zero value
DecodeEndpoint(e) == [Path |-> e.path, Method |-> e.method, Service |-> Nil]

DecodeService(sv) ==
    [Name |-> sv.name,
     Endpoints |-> [i \in DOMAIN sv.endpoints |-> DecodeEndpoint(sv.endpoints[i])]]

DecodeDependency(d) ==
    [FromService |-> d.from_service, FromEndpoint |-> d.from_endpoint,
     ToService |-> d.to_service, ToEndpoint |-> d.to_endpoint, Weight |-> d.weight]

\* the call graph loadCallGraph returns for a file holding that JSON
loadCallGraph(file) ==
    [Services |-> [n \in DOMAIN file.services |-> DecodeService(file.services[n])],
     Dependencies |-> [i \in DOMAIN file.dependencies |-> DecodeDependency(file.dependencies[i])]]

\* endpoint.Service.Name read through a nil Service, for the first endpoint
\* CalculateCosts comes to
CalculateCostsPanics(cg) ==
    \E n \in DOMAIN cg.Services :
        \E i \in DOMAIN cg.Services[n].Endpoints : cg.Services[n].Endpoints[i].Service = Nil

\* the analyze command has built the call graph (every endpoint added with
\* AddEndpoint) and the metrics file exists
CmdInit ==
    /\ \E eps \in ServiceMaps, n \in 0..MaxCmdDeps :
         \E deps \in [1..n -> DependencyChoices(eps)] :
            callGraph = [Services |-> [s \in ServiceNames |-> NewService(s, eps[s])],
                         Dependencies |-> deps]
    /\ metricsSnapshot \in Snapshots
    /\ durationHours = 1
    /\ config = NewConfig(DefaultTopN)
    /\ report = Nil
    /\ graph = NewGraph
    /\ result = NoResult
    /\ history = NoHistory

\* exporter.ExportCallGraphJSON(callGraph, path)
ExportCallGraphJSON ==
    /\ result = NoResult
    /\ result' = [op |-> "ExportCallGraphJSON", file |-> EncodeCallGraph(callGraph)]
    /\ UNCHANGED <<callGraph, metricsSnapshot, durationHours, graph, report, config, history>>

\* runCalculate on the exported file: loadCallGraph, then CalculateCosts on
\* what was loaded
runCalculate ==
    /\ result.op = "ExportCallGraphJSON"
    /\ callGraph' = loadCallGraph(result.file)
    /\ IF CalculateCostsPanics(callGraph')
       THEN /\ report' = report
            /\ result' = [op |-> "runCalculate", panicked |-> TRUE]
       ELSE /\ \E r \in CalculateCostsReturns(callGraph', metricsSnapshot, durationHours) :
                  report' = Ptr(r)
            /\ result' = [op |-> "runCalculate", panicked |-> FALSE]
    /\ UNCHANGED <<metricsSnapshot, durationHours, graph, config, history>>

CmdNext == ExportCallGraphJSON \/ runCalculate

CmdSpec == CmdInit /\ [][CmdNext]_vars

----------------------------------------------------------------------------
\* Properties of the report returned by CalculateCosts.

Returned == report # Nil
Report   == Deref(report)

\* the endpoint costs the report holds for service s
EndpointCostsOf(s) ==
    {Report.Services[s].Endpoints[k] : k \in DOMAIN Report.Services[s].Endpoints}

\* every endpoint cost of the report
AllEndpointCosts == UNION {EndpointCostsOf(s) : s \in DOMAIN Report.Services}

Entries(ec) == {ec.DownstreamCosts[j] : j \in DOMAIN ec.DownstreamCosts}

\* sum of the costs of a downstream list, by position
DownstreamSum(ec) ==
    SumOver([j \in DOMAIN ec.DownstreamCosts |-> ec.DownstreamCosts[j].Cost],
            DOMAIN ec.DownstreamCosts)

\* the direct costs the report holds for the endpoints of service s with that path
DirectCostsAt(s, path) ==
    IF s \in DOMAIN Report.Services
    THEN {ec.DirectCost : ec \in {c \in EndpointCostsOf(s) : c.Endpoint = path}}
    ELSE {}

\* C1: in the returned report, every depth-1 downstream entry for a target
\* (service S, endpoint P) costs the edge weight times the direct cost the
\* report holds for endpoint P of service S, whichever service S is.
C1_DirectEntryCostsTargetDirectCost ==
    Returned =>
        \A ec \in AllEndpointCosts : \A e \in Entries(ec) :
            (e.Depth = 1 /\ DirectCostsAt(e.Service, e.Endpoint) # {})
                => \E c \in DirectCostsAt(e.Service, e.Endpoint) :
                      e.Cost = e.CallsPerRequest * c

\* the dependencies walked to reach a downstream entry
ChainDeps(e) == [j \in DOMAIN e.Chain |-> callGraph.Dependencies[e.Chain[j]]]

\* e.Chain is a dependency chain from the endpoint of ec to the target of e
IsChainFrom(ec, e) ==
    LET deps == ChainDeps(e) IN
    /\ Len(deps) = e.Depth
    /\ Len(deps) >= 1
    /\ deps[1].FromService = ec.Service /\ deps[1].FromEndpoint = ec.Endpoint
    /\ \A j \in 1..(Len(deps) - 1) :
          deps[j].ToService = deps[j + 1].FromService
          /\ deps[j].ToEndpoint = deps[j + 1].FromEndpoint
    /\ deps[Len(deps)].ToService = e.Service
    /\ deps[Len(deps)].ToEndpoint = e.Endpoint
    /\ deps[Len(deps)].Weight = e.CallsPerRequest

\* C2: every downstream entry of an endpoint was reached along a dependency
\* chain E -> T1 -> ... -> Tk from that endpoint, and its cost is the direct
\* cost looked up for Tk times the product of the weights of the k edges.
C2_WeightsComposeAlongChain ==
    Returned =>
        \A s \in DOMAIN Report.Services : \A ec \in EndpointCostsOf(s) :
            \A e \in Entries(ec) :
                LET deps == ChainDeps(e) IN
                /\ IsChainFrom(ec, e)
                /\ e.Cost = TargetCost(Report.Services[s].Endpoints, deps[Len(deps)])
                              * Product([j \in DOMAIN deps |-> deps[j].Weight])

\* a walk went two edges deep, over two different weights, to a target with a cost
C2_Witness ==
    /\ Returned
    /\ \E ec \in AllEndpointCosts : \E e \in Entries(ec) :
          /\ e.Depth >= 2 /\ e.Cost > 0
          /\ ChainDeps(e)[1].Weight # ChainDeps(e)[2].Weight

\* C3: every endpoint cost of the report has TotalCost = DirectCost + the sum
\* of the costs of all its downstream entries, direct and nested.
C3_EndpointTotalIsDirectPlusDownstream ==
    Returned =>
        \A ec \in AllEndpointCosts : ec.TotalCost = ec.DirectCost + DownstreamSum(ec)

\* an endpoint with a direct cost, a depth-1 entry and a nested entry, all non-zero
C3_Witness ==
    /\ Returned
    /\ \E ec \in AllEndpointCosts :
          /\ ec.DirectCost > 0
          /\ \E e1, e2 \in Entries(ec) :
                e1.Depth = 1 /\ e1.Cost > 0 /\ e2.Depth = 2 /\ e2.Cost > 0

\* C4: every service cost of the report has TotalCost = the sum, over the
\* endpoint costs in its Endpoints map, of direct cost plus downstream total.
C4_ServiceTotalIsSumOverEndpoints ==
    Returned =>
        \A s \in DOMAIN Report.Services :
            LET sc == Report.Services[s] IN
            sc.TotalCost =
                SumOver([k \in DOMAIN sc.Endpoints |->
                            sc.Endpoints[k].DirectCost + DownstreamSum(sc.Endpoints[k])],
                        DOMAIN sc.Endpoints)

\* C5: the report's TotalCost is the sum of the TotalCost of its service costs.
C5_ReportTotalIsSumOfServices ==
    Returned =>
        Report.TotalCost =
            SumOver([s \in DOMAIN Report.Services |-> Report.Services[s].TotalCost],
                    DOMAIN Report.Services)

\* a report with two services of non-zero total cost
C5_Witness ==
    /\ Returned
    /\ \E s, t \in DOMAIN Report.Services :
          s # t /\ Report.Services[s].TotalCost > 0 /\ Report.Services[t].TotalCost > 0

BreakdownAddsUp(cb) ==
    cb.Total = cb.CPUCost + cb.MemoryCost + cb.NetworkCost + cb.DiskCost
                + cb.RequestCost + cb.DownstreamTotal

\* the resource and performance arguments NewCostBreakdown can be given here
SnapshotEndpointMetrics ==
    UNION {{metricsSnapshot.Services[s].Endpoints[k] :
                k \in DOMAIN metricsSnapshot.Services[s].Endpoints} :
           s \in DOMAIN metricsSnapshot.Services}
ResourceArgs    == {Nil} \cup {em.Resource : em \in SnapshotEndpointMetrics}
PerformanceArgs == {Nil} \cup {em.Performance : em \in SnapshotEndpointMetrics}

\* C6: every breakdown of the report, and every breakdown NewCostBreakdown
\* returns, has Total = CPU + memory + network + disk + request + downstream
\* total, the downstream total being the sum of the endpoint's entry costs.
C6_BreakdownTotalAddsUp ==
    /\ \A res \in ResourceArgs, perf \in PerformanceArgs, model \in {Nil, Ptr(DefaultCostModel)} :
          LET cb == NewCostBreakdown(res, perf, model, durationHours) IN
          BreakdownAddsUp(cb) /\ cb.DownstreamTotal = 0
    /\ Returned =>
          \A ec \in AllEndpointCosts :
              ec.CostBreakdown # Nil =>
                  /\ BreakdownAddsUp(Deref(ec.CostBreakdown))
                  /\ Deref(ec.CostBreakdown).DownstreamTotal = DownstreamSum(ec)

\* a breakdown of the report with a request cost, a resource cost and a downstream total
C6_Witness ==
    /\ Returned
    /\ \E ec \in AllEndpointCosts :
          /\ ec.CostBreakdown # Nil
          /\ Deref(ec.CostBreakdown).RequestCost > 0
          /\ Deref(ec.CostBreakdown).CPUCost > 0
          /\ Deref(ec.CostBreakdown).DownstreamTotal > 0

----------------------------------------------------------------------------
\* Properties of the graph algorithms.

\* ids one edge away from id
Successors(g, id) ==
    {g.edges[i].To.ID : i \in {j \in DOMAIN g.edges : g.edges[j].From.ID = id}}

RECURSIVE Closure(_, _)
\* ids reachable from the set S along zero or more edges
Closure(g, S) ==
    LET next == S \cup UNION {Successors(g, id) : id \in S} IN
    IF next = S THEN S ELSE Closure(g, next)

\* ids reachable from id along one or more edges
Reach(g, id) == Closure(g, Successors(g, id))

\* some node is reachable from itself along one or more edges
IsCyclic(g) == \E id \in DOMAIN g.nodes : id \in Reach(g, id)

\* C7: HasCycle returns true exactly when the graph holds a directed cycle,
\* in whatever component it lies and in whatever order the nodes are visited.
C7_HasCycleIffDirectedCycle ==
    result.op = "HasCycle" => (result.value <=> IsCyclic(graph))

\* HasCycle found a cycle in a graph that also has a node apart from it
C7_Witness ==
    /\ result.op = "HasCycle" /\ result.value
    /\ \E id \in DOMAIN graph.nodes :
          Reach(graph, id) = {} /\ \A other \in DOMAIN graph.nodes : id \notin Reach(graph, other)

\* position of the node with that id in a list of nodes (0 when absent)
PositionOf(sorted, id) ==
    IF \E k \in DOMAIN sorted : sorted[k].ID = id
    THEN CHOOSE k \in DOMAIN sorted : sorted[k].ID = id
    ELSE 0

\* C8: on an acyclic graph TopologicalSort returns, without error, every node
\* exactly once, the source of every edge strictly before its target.
C8_TopologicalSortOrdersAcyclicGraph ==
    (result.op = "TopologicalSort" /\ ~IsCyclic(graph)) =>
        /\ ~result.err
        /\ result.sorted # Nil
        /\ LET sorted == Deref(result.sorted) IN
           /\ Len(sorted) = Cardinality(DOMAIN graph.nodes)
           /\ \A id \in DOMAIN graph.nodes :
                 Cardinality({k \in DOMAIN sorted : sorted[k] = graph.nodes[id]}) = 1
           /\ \A i \in DOMAIN graph.edges :
                 PositionOf(sorted, graph.edges[i].From.ID)
                    < PositionOf(sorted, graph.edges[i].To.ID)

\* three nodes sorted in a graph with two parallel edges
C8_Witness ==
    /\ result.op = "TopologicalSort" /\ ~result.err
    /\ Len(Deref(result.sorted)) = 3
    /\ \E i, j \in DOMAIN graph.edges :
          i # j /\ graph.edges[i].From = graph.edges[j].From
                /\ graph.edges[i].To = graph.edges[j].To

\* C9: on a cyclic graph TopologicalSort returns an error and no list, and
\* leaves the node set and the edge list as they were.
C9_TopologicalSortRejectsCyclicGraph ==
    [][(result'.op = "TopologicalSort" /\ IsCyclic(graph)) =>
            (result'.err /\ result'.sorted = Nil /\ graph' = graph)]_vars

\* TopologicalSort failed on a graph with a cycle and a node outside it
C9_Witness ==
    /\ result.op = "TopologicalSort" /\ result.err /\ IsCyclic(graph)
    /\ \E id \in DOMAIN graph.nodes : id \notin Reach(graph, id)

HasEdge(g, from, to) ==
    \E i \in DOMAIN g.edges : g.edges[i].From.ID = from /\ g.edges[i].To.ID = to

\* C10: every path FindAllPaths(start, end, maxDepth) returns begins at start,
\* ends at end, follows an edge between consecutive nodes, has at most
\* maxDepth hops and holds no node twice.
C10_PathsAreBoundedSimplePaths ==
    result.op = "FindAllPaths" =>
        \A k \in DOMAIN result.paths :
            LET path == result.paths[k] IN
            /\ Len(path) >= 1
            /\ path[1].ID = result.startID
            /\ path[Len(path)].ID = result.endID
            /\ \A j \in 1..(Len(path) - 1) : HasEdge(graph, path[j].ID, path[j + 1].ID)
            /\ Len(path) - 1 <= result.maxDepth
            /\ \A i, j \in DOMAIN path : i # j => path[i].ID # path[j].ID

\* on a cyclic graph, a path of exactly maxDepth hops was returned
C10_Witness ==
    /\ result.op = "FindAllPaths" /\ IsCyclic(graph)
    /\ \E k \in DOMAIN result.paths :
          Len(result.paths[k]) - 1 = result.maxDepth /\ result.maxDepth >= 2

\* the simple paths of g from startID to endID of at most depthBound hops, as
\* sequences of node IDs
SimplePaths(g, startID, endID, depthBound) ==
    LET ids == DOMAIN g.nodes
        longest == IF depthBound + 1 < Cardinality(ids) THEN depthBound + 1
                   ELSE Cardinality(ids)
    IN {p \in UNION {[1..n -> ids] : n \in 1..longest} :
           /\ p[1] = startID
           /\ p[Len(p)] = endID
           /\ \A j \in 1..(Len(p) - 1) : HasEdge(g, p[j], p[j + 1])
           /\ \A i, j \in DOMAIN p : i # j => p[i] # p[j]}

IDsOf(path) == [j \in DOMAIN path |-> path[j].ID]

\* C11: FindAllPaths(start, end, maxDepth) returns every simple path from
\* start to end of at most maxDepth hops, and returns as many paths as there
\* are distinct such simple paths.
C11_FindAllPathsIsExhaustive ==
    result.op = "FindAllPaths" =>
        LET simple == SimplePaths(graph, result.startID, result.endID, result.maxDepth) IN
        /\ \A p \in simple : \E k \in DOMAIN result.paths : IDsOf(result.paths[k]) = p
        /\ Len(result.paths) = Cardinality(simple)

\* two dependencies that call each other (a self-loop when they are the same one)
MutualCycle(d, e) ==
    /\ d.ToService = e.FromService /\ d.ToEndpoint = e.FromEndpoint
    /\ e.ToService = d.FromService /\ e.ToEndpoint = d.FromEndpoint

\* C12: on every call graph, dependency cycles included, and every metrics
\* snapshot, services or endpoints missing included, the call of
\* CalculateCosts can complete (its walk returns), and what it returns is a
\* report with a nil error.
C12_CalculateCostsReturnsReport ==
    /\ report = Nil => CalculateCostsReturns(callGraph, metricsSnapshot, durationHours) # {}
    /\ result.op = "CalculateCosts" => (report # Nil /\ result.err = Nil)

\* a report was returned with a nil error for a call graph with a mutual cycle
\* the walk went around, and a snapshot with a service missing
C12_Witness ==
    /\ Returned /\ result.op = "CalculateCosts" /\ result.err = Nil
    /\ \E i, j \in DOMAIN callGraph.Dependencies :
          i # j /\ MutualCycle(callGraph.Dependencies[i], callGraph.Dependencies[j])
    /\ \E s \in DOMAIN callGraph.Services : s \notin DOMAIN metricsSnapshot.Services
    /\ \E ec \in AllEndpointCosts : \E e \in Entries(ec) : e.Depth >= 2

\* the snapshot holds no metrics entry for the endpoint of ec: its service is
\* absent, or its "path:method" key is
NoMetricsEntry(ec) ==
    \/ ec.Service \notin DOMAIN metricsSnapshot.Services
    \/ Key(ec.Endpoint, ec.Method) \notin DOMAIN metricsSnapshot.Services[ec.Service].Endpoints

\* C13: an endpoint with no matching metrics entry has, in the report, a
\* direct cost of zero and a breakdown that is present, zero in its five
\* resource costs, and records the endpoint's downstream total.
C13_MissingMetricsYieldZeroBreakdown ==
    Returned =>
        \A ec \in AllEndpointCosts :
            NoMetricsEntry(ec) =>
                /\ ec.DirectCost = 0
                /\ ec.CostBreakdown # Nil
                /\ LET cb == Deref(ec.CostBreakdown) IN
                   /\ cb.CPUCost = 0 /\ cb.MemoryCost = 0 /\ cb.NetworkCost = 0
                   /\ cb.DiskCost = 0 /\ cb.RequestCost = 0
                   /\ cb.DownstreamTotal = DownstreamSum(ec)

\* C14: TopCostly is in non-increasing TotalCost order, holds min(10, number
\* of endpoint costs) of the endpoint costs, each at most once, and no
\* endpoint cost left out of it has a greater TotalCost than one in it.
C14_TopCostlyIsSortedPrefix ==
    result.op = "findTopCostlyEndpoints" =>
        LET top == result.TopCostly
            kept == {top[k] : k \in DOMAIN top}
            all  == {result.allEndpoints[k] : k \in DOMAIN result.allEndpoints}
        IN /\ \A k \in 1..(Len(top) - 1) : top[k].TotalCost >= top[k + 1].TotalCost
           /\ Len(top) = IF Len(result.allEndpoints) < 10 THEN Len(result.allEndpoints) ELSE 10
           /\ kept \subseteq all
           /\ Cardinality(kept) = Len(top)
           /\ \A e \in all \ kept : \A t \in kept : e.TotalCost <= t.TotalCost

\* more than ten endpoint costs were ranked, a costlier one met last and a
\* cheaper one first, and a cheaper one left out
C14_Witness ==
    /\ result.op = "findTopCostlyEndpoints"
    /\ Len(result.allEndpoints) > 10
    /\ result.allEndpoints[Len(result.allEndpoints)].TotalCost = 2
    /\ result.allEndpoints[1].TotalCost = 1
    /\ result.TopCostly[1].TotalCost = 2
    /\ \E k \in DOMAIN result.allEndpoints :
          /\ result.allEndpoints[k].TotalCost = 1
          /\ \A j \in DOMAIN result.TopCostly : result.TopCostly[j] # result.allEndpoints[k]

\* C15: the report's TopCostly holds at most the configured Output.TopN
\* entries.
C15_TopCostlyCutToConfiguredTopN ==
    Returned => Len(Report.TopCostly) <= config.Output.TopN

\* the endpoint's direct cost is positive and its downstream total is more
\* than 5 times its direct cost
NeedsReview(ec) == ec.DirectCost > 0 /\ DownstreamSum(ec) > 5 * ec.DirectCost

\* the positions of the "review dependency chain" recommendations naming name
ReviewsOf(name) ==
    {k \in DOMAIN Report.Recommendations :
        Report.Recommendations[k].Kind = "review" /\ Report.Recommendations[k].Name = name}

\* C16: the report holds one "review dependency chain" recommendation for
\* every endpoint cost whose direct cost is positive and whose downstream total
\* is more than 5 times its direct cost, and none for any other.
C16_ReviewIffDownstreamOverFiveTimesDirect ==
    Returned =>
        /\ \A k \in DOMAIN Report.Recommendations :
              Report.Recommendations[k].Kind = "review" =>
                  \E ec \in AllEndpointCosts :
                      Report.Recommendations[k].Name = ec.Service \o ec.Endpoint
        /\ \A ec \in AllEndpointCosts :
              Cardinality(ReviewsOf(ec.Service \o ec.Endpoint)) =
                  Cardinality({c \in AllEndpointCosts :
                                  /\ c.Service = ec.Service /\ c.Endpoint = ec.Endpoint
                                  /\ NeedsReview(c)})

\* an endpoint with its one recommendation, beside an endpoint that has a
\* downstream total and a direct cost of zero
C16_Witness ==
    /\ Returned
    /\ \E ec \in AllEndpointCosts :
          NeedsReview(ec) /\ Cardinality(ReviewsOf(ec.Service \o ec.Endpoint)) = 1
    /\ \E ec \in AllEndpointCosts : ec.DirectCost = 0 /\ DownstreamSum(ec) > 0

\* C17: when the report holds an endpoint cost, its first recommendation is
\* the "optimize" one, naming an endpoint whose TotalCost is the greatest of
\* all endpoint costs, and every "review dependency chain" recommendation
\* comes after it; when it holds none, it holds no recommendation.
C17_FirstRecommendationNamesCostliest ==
    Returned =>
        LET recs == Report.Recommendations IN
        IF AllEndpointCosts = {} THEN recs = <<>>
        ELSE /\ Len(recs) >= 1
             /\ recs[1].Kind = "optimize"
             /\ \E ec \in AllEndpointCosts :
                   /\ recs[1].Name = ec.Service \o ec.Endpoint
                   /\ \A other \in AllEndpointCosts : other.TotalCost <= ec.TotalCost
             /\ \A k \in DOMAIN recs : recs[k].Kind = "review" => k > 1

\* two endpoints of different total cost, the cheaper one with a "review
\* dependency chain" recommendation behind the first recommendation
C17_Witness ==
    /\ Returned
    /\ \E ec, other \in AllEndpointCosts :
          /\ other.TotalCost < ec.TotalCost
          /\ Report.Recommendations[1].Name = ec.Service \o ec.Endpoint
          /\ ec.Service \o ec.Endpoint # other.Service \o other.Endpoint
          /\ \E k \in DOMAIN Report.Recommendations :
                /\ k > 1 /\ Report.Recommendations[k].Kind = "review"
                /\ Report.Recommendations[k].Name = other.Service \o other.Endpoint

\* the quotient q is num / den, den being non-zero (quotients are kept
\* unreduced, so the two are compared term by term unless they are zero)
IsQuotient(q, num, den) ==
    /\ q.den # 0
    /\ IF num = 0 THEN q.num = 0 ELSE q.num = num /\ q.den = den

\* C18: every endpoint cost of the report has CostPerRequest = TotalCost /
\* RequestCount when its RequestCount is positive, and CostPerRequest = 0
\* when its RequestCount is 0.
C18_CostPerRequestIsTotalOverRequests ==
    Returned =>
        \A ec \in AllEndpointCosts :
            /\ ec.RequestCount > 0 =>
                  IsQuotient(ec.CostPerRequest, ec.TotalCost, ec.RequestCount)
            /\ ec.RequestCount = 0 => IsQuotient(ec.CostPerRequest, 0, 1)

\* an endpoint with requests and a downstream total, beside an endpoint with a
\* total cost and no request
C18_Witness ==
    /\ Returned
    /\ \E ec \in AllEndpointCosts :
          ec.RequestCount > 0 /\ DownstreamSum(ec) > 0 /\ ec.CostPerRequest.num > 0
    /\ \E ec \in AllEndpointCosts : ec.RequestCount = 0 /\ ec.TotalCost > 0

\* the dependency list holds no dependency from the endpoint of ec
IsLeaf(ec) ==
    \A i \in DOMAIN callGraph.Dependencies :
        ~(callGraph.Dependencies[i].FromService = ec.Service
          /\ callGraph.Dependencies[i].FromEndpoint = ec.Endpoint)

\* C19: an endpoint with no outgoing dependency has, in the report, an empty
\* DownstreamCosts list and TotalCost = DirectCost.
C19_LeafHasNoDownstream ==
    Returned =>
        \A ec \in AllEndpointCosts :
            IsLeaf(ec) => (ec.DownstreamCosts = <<>> /\ ec.TotalCost = ec.DirectCost)

\* a leaf endpoint with a direct cost, called by an endpoint of its service
\* that has downstream entries
C19_Witness ==
    /\ Returned
    /\ \E ec, caller \in AllEndpointCosts :
          /\ IsLeaf(ec) /\ ec.DirectCost > 0 /\ ec.TotalCost = ec.DirectCost
          /\ caller.Service = ec.Service /\ ~IsLeaf(caller)
          /\ \E e \in Entries(caller) :
                e.Service = ec.Service /\ e.Endpoint = ec.Endpoint /\ e.Cost > 0

\* C20: for H hours, NewCostBreakdown returns cpu = cores * price * H,
\* memory = (MB / 1024) * price * H, disk = ((read + write) / 1024) * price * H,
\* request = rate * price * H * 3600, network = ((in + out) / 1024) * price
\* whatever H is, and Total = the sum of the five.
C20_BreakdownFormulas ==
    result.op = "NewCostBreakdown" =>
        LET cb == result.cb
            H  == result.hours
        IN /\ (result.metrics # Nil /\ result.model # Nil) =>
                 LET m == Deref(result.metrics)
                     c == Deref(result.model)
                 IN /\ cb.CPUCost = m.CPUCores * c.CPUCostPerCoreHour * H
                    /\ cb.MemoryCost = (m.MemoryMB \div 1024) * c.MemoryCostPerGBHour * H
                    /\ cb.DiskCost =
                          ((m.DiskReadMB + m.DiskWriteMB) \div 1024) * c.DiskCostPerGBHour * H
                    /\ cb.NetworkCost =
                          ((m.NetworkInMB + m.NetworkOutMB) \div 1024) * c.NetworkCostPerGB
           /\ (result.perfMetrics # Nil /\ result.model # Nil) =>
                 cb.RequestCost = Deref(result.perfMetrics).RequestRate
                                    * Deref(result.model).RequestCost * H * 3600
           /\ cb.Total = cb.CPUCost + cb.MemoryCost + cb.NetworkCost + cb.DiskCost
                           + cb.RequestCost

\* a breakdown over more than one hour with each of the five costs non-zero
C20_Witness ==
    /\ result.op = "NewCostBreakdown"
    /\ result.hours > 1
    /\ result.cb.CPUCost > 0 /\ result.cb.MemoryCost > 0 /\ result.cb.NetworkCost > 0
    /\ result.cb.DiskCost > 0 /\ result.cb.RequestCost > 0

----------------------------------------------------------------------------
\* Properties of AddNode and AddEdge.

\* the node an AddNode call with the attributes recorded for id creates
FirstAdded(id) ==
    NewNode(id, history.firstAdded[id][1], history.firstAdded[id][2],
            history.firstAdded[id][3])

\* the graph holds one node per id AddNode was called with, each carrying the
\* attributes of the first call made with its id, and the last AddNode call
\* returned that node
C21_FirstAddNodeWins ==
    /\ DOMAIN graph.nodes = DOMAIN history.firstAdded
    /\ NodeCount(graph) = Cardinality(DOMAIN history.firstAdded)
    /\ \A id \in DOMAIN graph.nodes : graph.nodes[id] = FirstAdded(id)
    /\ result.op = "AddNode" => result.node = FirstAdded(result.id)

\* an AddNode call with an id the graph holds leaves the nodes and NodeCount
\* as they were, and no AddNode call changes the edge list
C21_AddNodeStep ==
    result'.op = "AddNode" =>
        /\ graph'.edges = graph.edges
        /\ result'.id \in DOMAIN graph.nodes =>
              /\ graph'.nodes = graph.nodes
              /\ NodeCount(graph') = NodeCount(graph)
              /\ result'.node = graph.nodes[result'.id]

\* C21: after any sequence of AddNode calls the graph holds one node per
\* distinct id, carrying the attributes of the first call made with that id;
\* a later call with the same id and other attributes returns the original
\* node and changes neither the node nor NodeCount; AddNode never changes the
\* edge list.
C21_AddNodeIsIdempotentById ==
    []C21_FirstAddNodeWins /\ [][C21_AddNodeStep]_vars

\* AddNode was called with the id of a node of the graph and another endpoint,
\* on a graph with two nodes and an edge
C21_Witness ==
    /\ result.op = "AddNode"
    /\ result.endpoint # result.node.Endpoint
    /\ NodeCount(graph) = 2
    /\ EdgeCount(graph) >= 1

\* the edge list is the AddEdge calls made, one edge per call in call order
C22_EdgesAreTheCallsMade ==
    /\ EdgeCount(graph) = Len(history.edgesAdded)
    /\ \A k \in DOMAIN graph.edges :
          /\ graph.edges[k].From = history.edgesAdded[k][1]
          /\ graph.edges[k].To = history.edgesAdded[k][2]
          /\ graph.edges[k].Weight = history.edgesAdded[k][3]

\* an AddEdge call appends the edge it returns and leaves the node set alone
C22_AddEdgeStep ==
    result'.op = "AddEdge" =>
        /\ graph'.edges = Append(graph.edges, result'.edge)
        /\ graph'.nodes = graph.nodes

\* C22: AddEdge appends exactly one edge per call: EdgeCount is the number of
\* AddEdge calls made, repeated edges between the same ordered pair are all
\* kept, the edges lie in insertion order, and AddEdge never changes the node
\* set, whether or not its from and to nodes are in it.
C22_AddEdgeAppendsOneEdge ==
    []C22_EdgesAreTheCallsMade /\ [][C22_AddEdgeStep]_vars

\* the same ordered pair was joined twice, and an edge leaves a node that is
\* not in the node set
C22_Witness ==
    /\ result.op = "AddEdge"
    /\ EdgeCount(graph) = 2
    /\ graph.edges[1] = graph.edges[2]
    /\ graph.edges[1].From.ID \notin DOMAIN graph.nodes
    /\ graph.edges[1].To.ID \in DOMAIN graph.nodes

\* C28: HasCycle and TopologicalSort complete with a correct result on every
\* graph built with AddNode and AddEdge, a graph with an edge from or to a node
\* that was never added included: neither panics, HasCycle tells whether a
\* cycle runs through a node of the graph, and TopologicalSort of an acyclic
\* graph returns an error or a list holding every node of the node set.
C28_AlgorithmsCompleteOnAnyBuiltGraph ==
    /\ result.op = "HasCycle" =>
          (~result.panicked /\ (result.value <=> IsCyclic(graph)))
    /\ result.op = "TopologicalSort" =>
          /\ ~result.panicked
          /\ ~IsCyclic(graph) =>
                \/ result.err
                \/ \A id \in DOMAIN graph.nodes :
                      \E k \in DOMAIN Deref(result.sorted) :
                          Deref(result.sorted)[k] = graph.nodes[id]

----------------------------------------------------------------------------
\* Properties of a cost report built call by call.

\* the sum of TotalCost over the service costs rep holds
HeldTotal(rep) ==
    SumOver([s \in DOMAIN rep.Services |-> rep.Services[s].TotalCost], DOMAIN rep.Services)

\* C23: in every state reached from NewCostReport by AddServiceCost and
\* CalculateTotalCost calls, two service costs of the same name included, the
\* report's TotalCost is the sum of TotalCost over the service costs it holds;
\* CalculateTotalCost establishes the equality and a second call changes
\* nothing.
C23_TotalIsSumOfHeldServiceCosts ==
    /\ Returned => Report.TotalCost = HeldTotal(Report)
    /\ result.op = "CalculateTotalCost" =>
          (Report.TotalCost = HeldTotal(Report) /\ CalculateTotalCost(Report) = Report)

----------------------------------------------------------------------------
\* Properties of the downstream walk of one endpoint.

Walked == result.op = "calculateDownstreamCosts"

\* the downstream entries the walk returned
WalkEntries == {result.ec.DownstreamCosts[j] : j \in DOMAIN result.ec.DownstreamCosts}

\* the "service:endpoint" keys of the targets along a chain of dependencies,
\* given by their indices
ChainKeys(c) ==
    {Key(callGraph.Dependencies[c[j]].ToService, callGraph.Dependencies[c[j]].ToEndpoint) :
        j \in DOMAIN c}

\* the endpoint the walk enters at the end of chain c: the GET endpoint of the
\* last target, Nil when the call graph holds none
EnteredBy(c) ==
    LET d == callGraph.Dependencies[c[Len(c)]]
        s == GetService(callGraph, d.ToService)
    IN IF s = Nil THEN Nil ELSE GetEndpoint(Deref(s), d.ToEndpoint, "GET")

\* the indices of the dependencies that leave an endpoint
LeavingDeps(endpoint) ==
    {i \in DOMAIN callGraph.Dependencies :
        /\ callGraph.Dependencies[i].FromService = Deref(endpoint.Service)
        /\ callGraph.Dependencies[i].FromEndpoint = endpoint.Path}

\* the edges of the endpoint entered at the end of chain c whose target is not
\* on the path of c, each as the chain it makes with c
Extensions(c) ==
    IF EnteredBy(c) = Nil THEN {}
    ELSE {Append(c, i) : i \in {j \in LeavingDeps(Deref(EnteredBy(c))) :
                                    ChainKeys(<<j>>) \cap ChainKeys(c) = {}}}

\* C24: an edge whose target is already on the current recursion path (the
\* targets entered and not yet returned from) yields no downstream entry and
\* is not recursed into, so no entry's chain holds a target twice; the other
\* edges of the same endpoint are still processed, so every other edge of the
\* attributed endpoint and of every endpoint entered has its entry.
C24_EdgeToTargetOnPathIsPruned ==
    Walked =>
        LET chains == {e.Chain : e \in WalkEntries} IN
        /\ \A e \in WalkEntries : Cardinality(ChainKeys(e.Chain)) = Len(e.Chain)
        /\ \A i \in LeavingDeps(result.endpoint) : <<i>> \in chains
        /\ \A e \in WalkEntries :
              e.Depth <= maxDepth => Extensions(e.Chain) \subseteq chains

\* an endpoint was entered that has an edge back to a target on the path and,
\* later in the dependency list, an edge that got its entry
C24_Witness ==
    /\ Walked
    /\ \E e \in WalkEntries :
          /\ EnteredBy(e.Chain) # Nil
          /\ \E i, j \in LeavingDeps(Deref(EnteredBy(e.Chain))) :
                /\ i < j
                /\ ChainKeys(<<i>>) \subseteq ChainKeys(e.Chain)
                /\ \E e2 \in WalkEntries : e2.Chain = Append(e.Chain, j)

RECURSIVE WalkedPaths(_, _)
\* the chains of level and the chains that extend them by fewer than hops edges
WalkedPaths(level, hops) ==
    IF hops = 0 \/ level = {} THEN {}
    ELSE level \cup WalkedPaths(UNION {Extensions(c) : c \in level}, hops - 1)

\* C25: every recursive call of the walk returns with the visited set it was
\* entered with, and so does the walk itself; a target reached along several
\* paths therefore has one downstream entry per path (within the depth bound
\* the entries are the paths from the attributed endpoint that pass no target
\* twice, each once), and the total counts every one of them.
C25_VisitedIsRestoredOnReturn ==
    Walked =>
        /\ result.visited = {}
        /\ \A e \in WalkEntries :
              EnteredBy(e.Chain) # Nil =>
                  calculateDownstreamCosts(Deref(EnteredBy(e.Chain)), callGraph,
                      WalkEndpointCosts, e.Depth, ChainKeys(e.Chain)).visited
                    = ChainKeys(e.Chain)
        /\ \A j, k \in DOMAIN result.ec.DownstreamCosts :
              j # k => result.ec.DownstreamCosts[j].Chain # result.ec.DownstreamCosts[k].Chain
        /\ {e.Chain : e \in {d \in WalkEntries : d.Depth <= maxDepth}}
              = WalkedPaths({<<i>> : i \in LeavingDeps(result.endpoint)}, maxDepth)
        /\ result.ec.TotalCost = result.ec.DirectCost + SumCosts(result.ec.DownstreamCosts, 1)

\* a diamond: two entries for the same target, each two edges deep, through
\* two different endpoints
C25_Witness ==
    /\ Walked
    /\ \E e1, e2 \in WalkEntries :
          /\ e1.Depth = 2 /\ e2.Depth = 2
          /\ e1.Service = e2.Service /\ e1.Endpoint = e2.Endpoint
          /\ e1.Cost > 0 /\ e2.Cost > 0
          /\ ChainKeys(<<e1.Chain[1]>>) # ChainKeys(<<e2.Chain[1]>>)
          /\ ChainKeys(<<e1.Chain[1]>>) # ChainKeys(<<e1.Chain[2]>>)
          /\ ChainKeys(<<e2.Chain[1]>>) # ChainKeys(<<e2.Chain[2]>>)

\* C26: every downstream entry has a Depth between 1 and 10, the Depth being
\* the number of edges from the attributed endpoint to the entry's target
\* along the walked path, on every call graph, chains of more than 10
\* endpoints included.
C26_DepthIsAtMostTen ==
    Walked =>
        \A e \in WalkEntries :
            /\ IsChainFrom(result.ec, e)
            /\ e.Depth = Len(e.Chain)
            /\ 1 <= e.Depth /\ e.Depth <= 10

----------------------------------------------------------------------------
\* Further properties of the report returned by CalculateCosts.

\* C27: no endpoint has its own cost attributed to itself: no entry of an
\* endpoint's DownstreamCosts names the endpoint's own service and endpoint
\* as its target, whether or not the endpoint lies on a dependency cycle or
\* has a self-loop.
C27_NoEntryNamesItsOwnEndpoint ==
    Returned =>
        \A ec \in AllEndpointCosts : \A e \in Entries(ec) :
            ~(e.Service = ec.Service /\ e.Endpoint = ec.Endpoint)

----------------------------------------------------------------------------
\* Properties of the graph the builder leaves.

\* C29: after buildGraphStructure the graph has one edge per dependency of
\* the call graph, in dependency order, joining the GET nodes of the
\* dependency's source and target; both nodes of every edge are the nodes the
\* node set holds under their ids, missing endpoints having been created as
\* virtual nodes, so that following edges stays in the node set (the closing
\* HasCycle call completes).
C29_BuiltEdgesStayInNodeSet ==
    result.op = "buildGraphStructure" =>
        /\ EdgeCount(graph) = Len(callGraph.Dependencies)
        /\ \A k \in DOMAIN graph.edges :
              LET edge == graph.edges[k]
                  dep  == callGraph.Dependencies[k]
              IN /\ edge.From.ID = NodeIDOf(dep.FromService, dep.FromEndpoint, "GET")
                 /\ edge.To.ID = NodeIDOf(dep.ToService, dep.ToEndpoint, "GET")
                 /\ edge.Weight = dep.Weight
                 /\ GetNode(graph, edge.From.ID) = Ptr(edge.From)
                 /\ GetNode(graph, edge.To.ID) = Ptr(edge.To)
        /\ \A s \in DOMAIN callGraph.Services :
              \A j \in DOMAIN callGraph.Services[s].Endpoints :
                  LET endpoint == callGraph.Services[s].Endpoints[j] IN
                  NodeIDOf(s, endpoint.Path, endpoint.Method) \in DOMAIN graph.nodes
        /\ ~result.panicked

\* a dependency between two endpoints the call graph does not hold got its
\* edge between two virtual nodes, in a graph that also has an endpoint node
\* and a second edge
C29_Witness ==
    /\ result.op = "buildGraphStructure"
    /\ EdgeCount(graph) = 2
    /\ \E k \in DOMAIN graph.edges :
          /\ graph.edges[k].From.Endpoint = "/y"
          /\ graph.edges[k].To.Endpoint = "/y"
          /\ graph.edges[k].From.ID # graph.edges[k].To.ID
    /\ \E id \in DOMAIN graph.nodes : graph.nodes[id].Method = "POST"

----------------------------------------------------------------------------
\* Properties of the calculate command.

\* C30: every endpoint of the call graph the calculate command hands to
\* CalculateCosts has its Service back-reference set, so that costing a call
\* graph that was exported and loaded back does not fail on a nil Service.
C30_LoadedEndpointsHaveTheirService ==
    result.op = "runCalculate" =>
        /\ \A n \in DOMAIN callGraph.Services :
              \A i \in DOMAIN callGraph.Services[n].Endpoints :
                  callGraph.Services[n].Endpoints[i].Service # Nil
        /\ ~result.panicked

====
